---- MODULE Spec2Model ----
(***************************************************************************)
(* Model of the Prios productivity tracker: the per-task component         *)
(* scorers, the weight vector and composite scorers, and the IndexedDB     *)
(* task store with its derived productivity_scores records.                *)
(*                                                                         *)
(* JavaScript numbers are modelled as exact rationals <<n, d>> with d > 0  *)
(* in lowest terms; the three non-finite doubles are <<0,0>> (NaN),        *)
(* <<1,0>> (Infinity) and <<-1,0>> (-Infinity).  An `undefined` operand of *)
(* an arithmetic expression is NaN, as in JavaScript.                      *)
(***************************************************************************)
EXTENDS Integers, Sequences, FiniteSets, TLC

VARIABLES
    \* ---- per-task scorers (pure functions applied to one input) ----
    task,         \* the task record handed to a scorer
    goals,        \* the in-memory `goals` array of task-manager.js
    scoringCore,  \* TRUE iff window.PriosScoring is loaded (integration.js)
    path,         \* which scorer ran: "none" before any
    result,       \* the components the scorer returned
    thrown,       \* the error the last call raised, "none" if it returned
    \* ---- RobustProductivityScoring object ----
    weights,      \* this.weights
    scoreHistory, \* this.scoreHistory
    call,         \* the last method called on the object, with its argument
    normRun,      \* number of normalizeWeights() calls since weights were assigned
    calls,        \* number of scoring calls made on the object
    \* ---- ProductivityIntegration object (integration-enhanced.js) ----
    iweights,     \* this.weights
    storedWeights,\* localStorage item productivityWeights, "unset" before any write
    \* ---- scoring core (PriosScoring) ----
    ret,          \* the value the last scoring-core function returned
    \* ---- task-manager.js and its IndexedDB database ----
    dbTasks,      \* object store tasks
    dbScores,     \* object store productivity_scores (keyPath date)
    tasks,        \* the in-memory `tasks` array
    queue,        \* IndexedDB requests placed and not yet completed, oldest first
    nextId,       \* the key generator of the tasks store
    \* ---- observation of repeated scoring calls ----
    firstReturn,  \* for each scorer call made so far, the value its first call returned
    \* ---- anomaly detection ----
    cusum,        \* the locals of the running cusumEwmaAnomalies call
    \* ---- migration-rhythm.js ----
    idb,          \* the IndexedDB database ProductivityDB as the migration sees it
    backupItem,   \* localStorage item productivity_backup, "unset" before any write
    mig,          \* the RhythmMigration object and its running migrate() call
    \* ---- integration.js in several tabs ----
    vizItem,      \* localStorage item productivityVisualizationData
    tabs          \* for each tab, its queued storage events and running exports

scorerVars == <<task, goals, scoringCore, path, result>>
robustVars == <<weights, scoreHistory, normRun>>
integrationVars == <<iweights, storedWeights>>
weightVars == <<weights, scoreHistory, normRun, iweights, storedWeights, ret, call>>

storeVars == <<dbTasks, dbScores, tasks, queue, nextId>>

rescoreVars == <<firstReturn>>

anomalyVars == <<cusum>>

migrationVars == <<idb, backupItem, mig>>

tabVars == <<vizItem, tabs>>

vars == <<task, goals, scoringCore, path, result, thrown,
          weights, scoreHistory, call, normRun, iweights, storedWeights, ret,
          dbTasks, dbScores, tasks, queue, nextId, firstReturn, cusum,
          idb, backupItem, mig, vizItem, tabs>>

-----------------------------------------------------------------------------
(* JavaScript number arithmetic                                            *)

NaN == <<0, 0>>
PosInf == <<1, 0>>
NegInf == <<-1, 0>>

Abs(n) == IF n < 0 THEN -n ELSE n
Sign(n) == IF n < 0 THEN -1 ELSE IF n > 0 THEN 1 ELSE 0

RECURSIVE GCD(_, _)
GCD(a, b) == IF b = 0 THEN a ELSE GCD(b, a % b)

\* the double n/d
Q(n, d) ==
    IF d = 0 THEN <<Sign(n), 0>>
    ELSE LET g == GCD(Abs(n), Abs(d))
             s == IF d < 0 THEN -1 ELSE 1
         IN <<(s * n) \div g, (s * d) \div g>>

Num(n) == <<n, 1>>

IsNaN(x) == x = NaN
IsFinite(x) == x[2] # 0

Neg(x) == <<-x[1], x[2]>>

Mul(x, y) ==
    IF IsNaN(x) \/ IsNaN(y) THEN NaN
    ELSE IF IsFinite(x) /\ IsFinite(y) THEN Q(x[1] * y[1], x[2] * y[2])
    ELSE <<Sign(x[1]) * Sign(y[1]), 0>>

Add(x, y) ==
    IF IsNaN(x) \/ IsNaN(y) THEN NaN
    ELSE IF IsFinite(x) /\ IsFinite(y)
         THEN LET g == GCD(x[2], y[2])
              IN Q(x[1] * (y[2] \div g) + y[1] * (x[2] \div g), (x[2] \div g) * y[2])
    ELSE IF IsFinite(x) THEN y
    ELSE IF IsFinite(y) THEN x
    ELSE IF x = y THEN x ELSE NaN

Sub(x, y) == Add(x, Neg(y))

Div(x, y) ==
    IF IsNaN(x) \/ IsNaN(y) THEN NaN
    ELSE IF IsFinite(x) /\ IsFinite(y) THEN Q(x[1] * y[2], x[2] * y[1])
    ELSE IF IsFinite(x) THEN Num(0)
    ELSE IF IsFinite(y) THEN <<x[1] * (IF y[1] < 0 THEN -1 ELSE 1), 0>>
    ELSE NaN

\* x < y ; false when either side is NaN
Lt(x, y) ==
    /\ ~IsNaN(x)
    /\ ~IsNaN(y)
    /\ IF IsFinite(x) /\ IsFinite(y) THEN x[1] * y[2] < y[1] * x[2]
       ELSE IF IsFinite(x) THEN y = PosInf
       ELSE IF IsFinite(y) THEN x = NegInf
       ELSE x = NegInf /\ y = PosInf

Le(x, y) == ~IsNaN(x) /\ ~IsNaN(y) /\ ~Lt(y, x)

\* Math.max / Math.min: NaN if either argument is NaN
MathMax(x, y) == IF IsNaN(x) \/ IsNaN(y) THEN NaN ELSE IF Lt(x, y) THEN y ELSE x
MathMin(x, y) == IF IsNaN(x) \/ IsNaN(y) THEN NaN ELSE IF Lt(y, x) THEN y ELSE x

\* truthiness of a number: 0 and NaN are falsy
Truthy(x) == ~IsNaN(x) /\ x # Num(0)

\* a || b on numbers
OrElse(x, y) == IF Truthy(x) THEN x ELSE y

InRange100(x) == IsFinite(x) /\ Le(Num(0), x) /\ Le(x, Num(100))

-----------------------------------------------------------------------------
(* Math.exp(-p/q) for p/q >= 0, in fixed point: the Taylor series of       *)
(* exp(p/q) summed in units of 1/ExpScale, then inverted.                  *)

RECURSIVE ExpSeries(_, _, _, _)
ExpSeries(p, q, k, term) ==
    IF term = 0 THEN 0
    ELSE term + ExpSeries(p, q, k + 1, (term * p) \div (q * k))

\* Math.exp(-x) for a finite rational x >= 0, to four decimal places
ExpNeg(x) ==
    LET scale == 10000
    IN IF x[1] = 0 THEN Num(1)
       ELSE Q((scale * scale) \div ExpSeries(x[1], x[2], 1, scale), scale)

-----------------------------------------------------------------------------
(* Task records.  priority "" and category "" stand for a missing field,   *)
(* goalId 0 for null; duration is in minutes.                              *)

\* task-manager.js: new Task(data)
Task(data) ==
    [data EXCEPT !.priority = IF @ = "" THEN "medium" ELSE @,
                 !.duration = IF @ = 0 THEN 60 ELSE @,
                 !.category = IF @ = "" THEN "personal" ELSE @]

\* const priorityWeights = { high: 1.0, medium: 0.7, low: 0.4 }; a key that is
\* not in the table reads as undefined
priorityWeights(p) ==
    CASE p = "high" -> Num(1)
      [] p = "medium" -> Q(7, 10)
      [] p = "low" -> Q(4, 10)
      [] OTHER -> NaN

categoryWeights(c) ==
    CASE c = "work" -> Q(9, 10)
      [] c = "learning" -> Q(85, 100)
      [] c = "fitness" -> Q(7, 10)
      [] c = "personal" -> Q(6, 10)
      [] c = "wellness" -> Q(5, 10)
      [] OTHER -> NaN

calculateEffortScore(t) ==
    LET durationFactor == MathMin(Q(t.duration, 120), Num(1))
    IN Mul(Mul(priorityWeights(t.priority), durationFactor), Num(100))

calculateDurationScore(t) ==
    IF t.completed
    THEN LET efficiency == IF t.duration <= 60 THEN Num(1)
                           ELSE ExpNeg(Q(t.duration - 60, 100))
         IN Mul(efficiency, Num(100))
    ELSE Num(50)

calculateQualityScore(t) ==
    LET baseScore == OrElse(categoryWeights(t.category), Q(1, 2))
    IN Mul(IF t.completed THEN baseScore ELSE Mul(baseScore, Q(3, 10)), Num(100))

\* a goal is [id, hasDeadline, days]: days = whole days from now to the deadline
calculateGoalUrgency(goal) ==
    IF ~goal.hasDeadline THEN Q(1, 2)
    ELSE ExpNeg(Q(IF goal.days > 0 THEN goal.days ELSE 0, 20))

calculateGoalScore(t, gs) ==
    IF t.goalId # 0 /\ \E g \in gs : g.id = t.goalId
    THEN Mul(calculateGoalUrgency(CHOOSE g \in gs : g.id = t.goalId), Num(100))
    ELSE Num(30)

getProductivityComponents(t, gs) ==
    [effort |-> calculateEffortScore(t),
     duration |-> calculateDurationScore(t),
     quality |-> calculateQualityScore(t),
     goal |-> calculateGoalScore(t, gs)]

\* integration-enhanced.js: ProductivityIntegration.calculateTaskComponents
calculateTaskComponents(t) ==
    LET dur == IF t.duration = 0 THEN 60 ELSE t.duration
        durationFactor == MathMin(Q(dur, 120), Num(1))
        effort == Mul(Mul(priorityWeights(IF t.priority = "" THEN "medium" ELSE t.priority),
                          durationFactor), Num(100))
        efficiency == IF t.duration <= 60 THEN Num(1) ELSE ExpNeg(Q(dur - 60, 100))
        baseQuality == OrElse(categoryWeights(IF t.category = "" THEN "personal" ELSE t.category),
                              Q(1, 2))
    IN [effort |-> effort,
        duration |-> IF t.completed THEN Mul(efficiency, Num(100)) ELSE Num(50),
        quality |-> Mul(IF t.completed THEN baseQuality ELSE Mul(baseQuality, Q(3, 10)), Num(100)),
        goal |-> IF t.goalId # 0 THEN Num(80) ELSE Num(30)]

\* scoring core: clamp(value, min, max); a non-finite value maps to min
clamp(value, lo, hi) ==
    IF ~IsFinite(value) THEN lo ELSE MathMin(hi, MathMax(lo, value))

\* scoring core: the goal component of computeComponents for a task sanitized
\* by sanitizeTask that carries no goalImportance, goalUrgency or contextTags
\* and no numeric confidence (so confidence = 0.8)
computeComponents_goal(t) ==
    LET goalLinked == t.goalId # 0
        confidence == clamp(Q(8, 10), Num(0), Num(1))
        confidenceFloor == Add(Q(6, 10), Mul(confidence, Q(4, 10)))
        goalScore == Mul(IF goalLinked THEN Num(78) ELSE Num(38), confidenceFloor)
    IN clamp(goalScore, Num(0), Num(100))

\* integration.js: ProductivityIntegration.calculateTaskScores; core = TRUE iff
\* window.PriosScoring is loaded.  With the core only the goal component is
\* modelled; validateComponents clamps it again.
calculateTaskScores(t, core) ==
    IF core
    THEN [goal |-> clamp(OrElse(computeComponents_goal(t), Num(0)), Num(0), Num(100))]
    ELSE LET priorityScores == CASE t.priority = "high" -> Num(90)
                                 [] t.priority = "medium" -> Num(60)
                                 [] t.priority = "low" -> Num(30)
                                 [] OTHER -> NaN
             categoryScores == CASE t.category = "work" -> Num(85)
                                 [] t.category = "learning" -> Num(80)
                                 [] t.category = "fitness" -> Num(70)
                                 [] t.category = "personal" -> Num(60)
                                 [] t.category = "wellness" -> Num(50)
                                 [] OTHER -> NaN
             durationRatio == MathMin(Q(t.duration, 60), Num(2))
             dev == Sub(durationRatio, Num(1))
             absDev == IF Lt(dev, Num(0)) THEN Neg(dev) ELSE dev
         IN [effort |-> OrElse(priorityScores, Num(50)),
             duration |-> IF t.completed
                          THEN Mul(Num(100), ExpNeg(Mul(Q(1, 2), absDev)))
                          ELSE Num(30),
             quality |-> Mul(OrElse(categoryScores, Num(50)),
                             IF t.completed THEN Num(1) ELSE Q(3, 10)),
             goal |-> IF t.goalId # 0 THEN Num(80) ELSE Num(30)]

-----------------------------------------------------------------------------
(* RobustProductivityScoring: the weight vector                            *)

RKeys == {"effort", "duration", "quality", "goals", "rhythm"}
\* insertion order of the keys of this.weights
RKeySeq == <<"effort", "duration", "quality", "goals", "rhythm">>

RECURSIVE SumSeq(_, _, _)
\* Object.values(w).reduce((a, b) => a + b, 0) over the keys ks[i..]
SumSeq(w, ks, i) ==
    IF i > Len(ks) THEN Num(0) ELSE Add(w[ks[i]], SumSeq(w, ks, i + 1))

SumValues(w) == SumSeq(w, RKeySeq, 1)

\* this.minWeight = 0.05
minWeight == Q(5, 100)

\* the weights assigned in the constructor, before normalizeWeights()
constructorWeights ==
    [effort |-> Q(20, 100), duration |-> Q(20, 100), quality |-> Q(25, 100),
     goals |-> Q(20, 100), rhythm |-> Q(15, 100)]

\* normalizeWeights(): floor every weight at minWeight, then divide by the sum
normalizeWeights(w) ==
    LET floored == [k \in RKeys |-> MathMax(minWeight, w[k])]
        sum == SumValues(floored)
    IN [k \in RKeys |-> Div(floored[k], sum)]

\* bayesianUpdateWeights(evidence, priorStrength): hits[k] is the number of
\* evidence entries whose bestComponent is k; "other" is a bestComponent that
\* is not a key of alpha, which makes alpha[other] = undefined + 1 = NaN
bayesianUpdateWeights(hits, priorStrength) ==
    LET alpha == [k \in RKeys |-> Num(priorStrength + hits[k])]
        sumAlpha == IF hits["other"] > 0 THEN NaN ELSE SumValues(alpha)
    IN normalizeWeights([k \in RKeys |-> Div(alpha[k], sumAlpha)])

\* this.windowSize = 7
windowSize == 7

\* the history when the newest entry is dropped instead of the oldest
updateHistory_dropNewest(h, score) ==
    LET pushed == Append(h, score)
    IN IF Len(pushed) > windowSize THEN SubSeq(pushed, 1, windowSize) ELSE pushed

\* updateHistory(score) applied to the history h
updateHistory(h, score) ==
    LET pushed == Append(h, score)
    IN IF Len(pushed) > windowSize THEN Tail(pushed) ELSE pushed

\* Math.min(100, Math.max(0, x))
Bound100(x) == MathMin(Num(100), MathMax(Num(0), x))

\* the sum S = sum of wi * Xi of calculateScore(components) under the weights w;
\* a component that is missing from the argument is NaN here (undefined || 0)
weightedSum(w, components) ==
    LET E == Bound100(OrElse(components.effort, Num(0)))
        D == Bound100(OrElse(components.duration, Num(0)))
        Qu == Bound100(OrElse(components.quality, Num(0)))
        G == Bound100(OrElse(components.goals, Num(0)))
        R == Bound100(OrElse(components.rhythm, Num(0)))
    IN Add(Add(Add(Add(Mul(w.effort, E), Mul(w.duration, D)), Mul(w.quality, Qu)),
               Mul(w.goals, G)), Mul(w.rhythm, R))

\* the value calculateScore(components) returns
calculateScore(w, components) == Bound100(weightedSum(w, components))

-----------------------------------------------------------------------------
(* RobustProductivityScoring.optimizeWeights: a grid search over the       *)
(* weight vectors (e, d, q, g, r)/10 with positive parts summing to 10.    *)
(* The objective is evaluated in fixed point, in units of 1/1000.          *)

RECURSIVE ISqrtSearch(_, _, _)
\* the largest r in lo..hi with r * r <= n
ISqrtSearch(n, lo, hi) ==
    IF lo >= hi THEN lo
    ELSE LET mid == (lo + hi + 1) \div 2
         IN IF mid * mid <= n THEN ISqrtSearch(n, mid, hi) ELSE ISqrtSearch(n, lo, mid - 1)

\* 100 * Math.sqrt(x), truncated, for a finite rational x >= 0
SqrtCenti(x) ==
    LET whole == x[1] \div x[2]
    IN IF whole < 200000
       THEN ISqrtSearch(whole * 10000 + ((x[1] % x[2]) * 10000) \div x[2], 0, 46340)
       ELSE 100 * ISqrtSearch(whole, 0, 46340)

\* 10000 * Math.log(k/10), rounded, for the weights k/10 the grid produces
LogTenths(k) ==
    CASE k = 1 -> -23026
      [] k = 2 -> -16094
      [] k = 3 -> -12040
      [] k = 4 -> -9163
      [] k = 5 -> -6931
      [] k = 6 -> -5108

\* const steps = 10
steps == 10

\* the (e, d, q, g) the four nested loops reach with r = steps-e-d-q-g > 0,
\* keyed by their position in loop order
GridKeys ==
    {key \in 1111..9999 :
        LET e == key \div 1000
            d == (key \div 100) % 10
            q == (key \div 10) % 10
            g == key % 10
        IN /\ e >= 1 /\ d >= 1 /\ q >= 1 /\ g >= 1
           /\ d <= steps - e /\ q <= steps - e - d /\ g <= steps - e - d - q
           /\ steps - e - d - q - g > 0}

\* the grid in loop order: tenths of (effort, duration, quality, goals, rhythm)
GridSeq ==
    LET keyAt == [i \in 1..Cardinality(GridKeys) |->
                    CHOOSE key \in GridKeys :
                        Cardinality({other \in GridKeys : other < key}) = i - 1]
    IN [i \in 1..Cardinality(GridKeys) |->
           LET key == keyAt[i]
               e == key \div 1000
               d == (key \div 100) % 10
               q == (key \div 10) % 10
               g == key % 10
           IN <<e, d, q, g, steps - e - d - q - g>>]

\* the weight vector built and normalized for a grid point
gridWeights(t) ==
    LET raw == [effort |-> MathMax(minWeight, Q(t[1], steps)),
                duration |-> MathMax(minWeight, Q(t[2], steps)),
                quality |-> MathMax(minWeight, Q(t[3], steps)),
                goals |-> MathMax(minWeight, Q(t[4], steps)),
                rhythm |-> MathMax(minWeight, Q(t[5], steps))]
        sum == SumValues(raw)
    IN [k \in RKeys |-> Div(raw[k], sum)]

RECURSIVE SumOver(_, _, _)
\* sum of f[i..n]
SumOver(f, i, n) == IF i > n THEN Num(0) ELSE Add(f[i], SumOver(f, i + 1, n))

\* objective(weights) for the grid point t over the data, in units of 1/1000:
\* meanScore - lambda * sqrt(totalVariance) + tau * entropy
objective(t, data, externalOutcome) ==
    LET w == gridWeights(t)
        n == Len(data)
        scores == [j \in 1..n |-> calculateScore(w, data[j])]
        gains == [j \in 1..n |->
                    IF externalOutcome /\ data[j].hasOutcome
                    THEN Add(scores[j], Mul(scores[j], Num(data[j].outcome)))
                    ELSE scores[j]]
        meanScore == Div(SumOver(gains, 1, n), Num(n))
        sq == [j \in 1..n |-> Mul(Sub(scores[j], meanScore), Sub(scores[j], meanScore))]
        totalVariance == Div(SumOver(sq, 1, n), Num(n))
        entropyE5 == -(t[1] * LogTenths(t[1]) + t[2] * LogTenths(t[2]) + t[3] * LogTenths(t[3])
                       + t[4] * LogTenths(t[4]) + t[5] * LogTenths(t[5]))
    IN (meanScore[1] * 1000) \div meanScore[2]
       - 5 * SqrtCenti(totalVariance)
       + entropyE5 \div 1000

\* the index in GridSeq of the weights the search keeps: the first grid point
\* whose objective is the largest (value > bestObjective is strict)
gridBest(data, externalOutcome) ==
    LET value == [i \in 1..Len(GridSeq) |-> objective(GridSeq[i], data, externalOutcome)]
    IN CHOOSE i \in 1..Len(GridSeq) :
          \A j \in 1..Len(GridSeq) : value[j] < value[i] \/ (value[j] = value[i] /\ i <= j)

\* a historicalData record: the five components (NaN = missing) and an
\* optional outcome
DataRecord(e, d, q, g, r, hasOutcome, outcome) ==
    [effort |-> e, duration |-> d, quality |-> q, goals |-> g, rhythm |-> r,
     hasOutcome |-> hasOutcome, outcome |-> outcome]

\* the histories handed to optimizeWeights
HistoryInputs ==
    {<<>>,
     <<DataRecord(Num(80), Num(60), Num(70), Num(50), Num(40), FALSE, 0)>>,
     <<DataRecord(Num(80), Num(60), Num(70), Num(50), Num(40), TRUE, 3),
       DataRecord(Num(20), NaN, Num(100), Num(50), Num(90), FALSE, 0)>>,
     <<DataRecord(Num(55), Num(55), Num(55), Num(55), Num(55), TRUE, 1)>>}

\* gridBest over the histories tried, evaluated once
gridBestOf ==
    [data \in HistoryInputs \ {<<>>}, externalOutcome \in BOOLEAN |->
        gridBest(data, externalOutcome)]

\* optimizeWeights(historicalData, externalOutcome): the new this.weights
optimizeWeights(w, data, externalOutcome) ==
    IF Len(data) = 0 THEN w ELSE gridWeights(GridSeq[gridBestOf[data, externalOutcome]])

\* the history after optimizeWeights: every objective evaluation scores every
\* record through calculateScore, which pushes the unclamped sum
optimizeHistory(h, data) ==
    LET n == Len(data)
        total == Len(GridSeq) * n
        pushAt(p) == weightedSum(gridWeights(GridSeq[(p - 1) \div n + 1]), data[((p - 1) % n) + 1])
    IN IF n = 0 THEN h
       ELSE [i \in 1..windowSize |-> pushAt(total - windowSize + i)]

-----------------------------------------------------------------------------
(* integration-enhanced.js: ProductivityIntegration.updateWeights          *)

IKeys == {"effort", "duration", "quality", "goal", "rhythm"}
IKeySeq == <<"effort", "duration", "quality", "goal", "rhythm">>

integrationWeights ==
    [effort |-> Q(20, 100), duration |-> Q(20, 100), quality |-> Q(25, 100),
     goal |-> Q(20, 100), rhythm |-> Q(15, 100)]

AbsQ(x) == IF Lt(x, Num(0)) THEN Neg(x) ELSE x

\* the weights updateWeights(newWeights) installs in this.weights
updateWeights(newWeights) ==
    LET sum == SumSeq(newWeights, IKeySeq, 1)
    IN IF Lt(Q(1, 1000), AbsQ(Sub(sum, Num(1))))
       THEN [k \in IKeys |-> Div(newWeights[k], sum)]
       ELSE newWeights

\* JSON.stringify of a weights object: a non-finite number is written as null
JSONWeights(w) == [k \in DOMAIN w |-> IF IsFinite(w[k]) THEN w[k] ELSE "null"]

-----------------------------------------------------------------------------
(* scoring core: normalizeWeights and computeComposite.  A weight map is a *)
(* function from the keys it carries to numbers; <<>> is a missing or      *)
(* empty map.                                                              *)

PKeys == {"effort", "duration", "quality", "goal"}

DEFAULT_WEIGHTS == [k \in PKeys |-> Q(25, 100)]

RECURSIVE SumMap(_, _)
\* entries.reduce((sum, [, val]) => sum + (Number(val) || 0), 0) over the keys ks
SumMap(w, ks) ==
    IF ks = {} THEN Num(0)
    ELSE LET k == CHOOSE x \in ks : TRUE
         IN Add(OrElse(w[k], Num(0)), SumMap(w, ks \ {k}))

PriosScoring_normalizeWeights(w) ==
    IF DOMAIN w = {} THEN DEFAULT_WEIGHTS
    ELSE LET total == OrElse(SumMap(w, DOMAIN w), Num(1))
         IN [k \in DOMAIN w \cup PKeys |->
                IF k \in DOMAIN w THEN Div(OrElse(w[k], Num(0)), total)
                ELSE DEFAULT_WEIGHTS[k]]

\* computeComposite(components, weights) for components that carry all four
\* numbers
computeComposite(components, w) ==
    LET normalizedWeights == PriosScoring_normalizeWeights(IF DOMAIN w = {} THEN DEFAULT_WEIGHTS ELSE w)
    IN clamp(Add(Add(Add(Mul(normalizedWeights.effort, components.effort),
                         Mul(normalizedWeights.duration, components.duration)),
                     Mul(normalizedWeights.quality, components.quality)),
                 Mul(normalizedWeights.goal, components.goal)),
             Num(0), Num(100))

\* integration.js: ProductivityIntegration.calculateCompositeFromComponents;
\* core = TRUE iff window.PriosScoring is loaded
calculateCompositeFromComponents(components, core) ==
    IF core THEN computeComposite(components, DEFAULT_WEIGHTS)
    ELSE Add(Add(Add(Mul(Q(25, 100), OrElse(components.effort, Num(0))),
                     Mul(Q(25, 100), OrElse(components.duration, Num(0)))),
                 Mul(Q(25, 100), OrElse(components.quality, Num(0)))),
             Mul(Q(25, 100), OrElse(components.goal, Num(0))))

\* the same sum with the goal average left unweighted
compositeScore_goalUnweighted(avg) ==
    Add(Add(Add(Mul(Q(25, 100), avg.effort), Mul(Q(25, 100), avg.duration)),
            Mul(Q(25, 100), avg.quality)),
        avg.goal)

\* task-manager.js calculateDailyProductivity: the composite of the day's
\* averaged components under weights { e: 0.25, d: 0.25, q: 0.25, g: 0.25 }
compositeScore(avg) ==
    Add(Add(Add(Mul(Q(25, 100), avg.effort), Mul(Q(25, 100), avg.duration)),
            Mul(Q(25, 100), avg.quality)),
        Mul(Q(25, 100), avg.goal))

IntegrationIdle ==
    /\ iweights = integrationWeights
    /\ storedWeights = "unset"
    /\ ret = "none"

RobustIdle ==
    /\ weights = normalizeWeights(constructorWeights)
    /\ scoreHistory = <<>>
    /\ calls = 0
    /\ call = [op |-> "new"]
    /\ normRun = 1

NoResult == [goal |-> NaN]

\* no scorer call has been observed
RescoreIdle == firstReturn = {}

\* the locals of cusumEwmaAnomalies while no call of it is running
cusumIdle ==
    [pc |-> "idle", series |-> <<>>, t |-> 0, ewma |-> <<>>, pos |-> <<>>, neg |-> <<>>,
     med |-> <<0, 1>>, h |-> <<0, 1>>, idxs |-> <<>>]

AnomalyIdle == cusum = cusumIdle

\* ProductivityDB when it does not exist
noDatabase == [version |-> 0, stores |-> {}, tasks |-> {}, goals |-> {}, scores |-> {}, sleep |-> {}]

\* localStorage.getItem('productivity_backup') of an item never set
noBackup == [version |-> 0, stores |-> {}, tasks |-> {}, goals |-> {}, scores |-> {}]

\* a RhythmMigration object on which migrate() has not been called
migIdle == [pc |-> "idle", db |-> "null", currentVersion |-> 0, error |-> "none",
            returned |-> [success |-> TRUE, message |-> "none"],
            restoring |-> FALSE, runs |-> 0,
            before |-> [idb |-> noDatabase, backupItem |-> noBackup]]

MigrationIdle == idb = noDatabase /\ backupItem = noBackup /\ mig = migIdle

\* localStorage.getItem('productivityVisualizationData') of an item never set
noItem == [set |-> FALSE, generated |-> 0]

TabsIdle == vizItem = noItem /\ tabs = <<>>

\* the database and the task list before any task is saved
StoreIdle ==
    /\ dbTasks = {}
    /\ dbScores = {}
    /\ tasks = {}
    /\ queue = <<>>
    /\ nextId = 1

\* the scorers' variables while another part of the program is exercised
ScorerIdle ==
    /\ task = [priority |-> "", duration |-> 0, category |-> "", goalId |-> 0,
               completed |-> FALSE]
    /\ goals = {}
    /\ scoringCore = TRUE
    /\ path = "none"
    /\ result = NoResult

-----------------------------------------------------------------------------
(* The three weight normalizers applied to weight vectors                  *)

\* longest run of normalizeWeights() calls on the same vector
MaxNormRun == 2

PositiveWeights == [RKeys -> {Q(1, 100), Num(1)}]
NonPositiveWeights == [RKeys -> {Num(0), Q(-1, 4)}]
WeightInputs == PositiveWeights \cup NonPositiveWeights

\* the vectors handed to updateWeights: sums of 1, near 1, far from 1 and 0
UpdateInputs ==
    LET V(e, d, q, g, r) == [effort |-> e, duration |-> d, quality |-> q, goal |-> g, rhythm |-> r]
    IN {V(Q(20, 100), Q(20, 100), Q(25, 100), Q(20, 100), Q(15, 100)),
        V(Q(900, 1000), Q(25, 1000), Q(25, 1000), Q(25, 1000), Q(25, 1000)),
        V(Num(1), Num(1), Num(1), Num(1), Num(1)),
        V(Q(4000, 10000), Q(3000, 10000), Q(2000, 10000), Q(995, 10000), Num(0)),
        V(Num(2), Num(-1), Num(0), Num(0), Num(0)),
        V(Num(1), Num(-1), Num(0), Num(0), Num(0)),
        V(Num(0), Num(0), Num(0), Num(0), Num(0)),
        V(Q(-1, 4), Q(-1, 4), Q(-1, 4), Q(-1, 4), Q(-1, 4)),
        V(Num(0), Q(-1, 4), Num(0), Num(0), Q(-1, 2))}

\* the weight maps handed to the scoring core: with all four keys, with a key
\* missing, with an extra rhythm key, empty, and with no positive entry
PriosWeightInputs ==
    {<<>>,
     [k \in PKeys |-> Q(25, 100)],
     [effort |-> Q(4, 10), duration |-> Q(3, 10), quality |-> Q(2, 10), goal |-> Q(1, 10)],
     [effort |-> Num(2), duration |-> Num(1), quality |-> Num(1), goal |-> Num(4)],
     [effort |-> Num(1)],
     [effort |-> Q(1, 2), duration |-> Q(1, 2)],
     [effort |-> Q(20, 100), duration |-> Q(20, 100), quality |-> Q(25, 100),
      goal |-> Q(20, 100), rhythm |-> Q(15, 100)],
     [k \in PKeys |-> Num(0)],
     [effort |-> Q(-1, 4), duration |-> Num(0), quality |-> Q(-1, 4), goal |-> Num(0)]}

InitNormalize ==
    /\ RescoreIdle
    /\ AnomalyIdle
    /\ MigrationIdle
    /\ TabsIdle
    /\ StoreIdle
    /\ ScorerIdle
    /\ IntegrationIdle
    /\ thrown = "none"
    /\ weights \in WeightInputs
    /\ scoreHistory = <<>>
    /\ call = [op |-> "assign"]
    /\ normRun = 0
    /\ calls = 0

\* RobustProductivityScoring.normalizeWeights()
NormalizeWeights ==
    /\ normRun < MaxNormRun
    /\ weights' = normalizeWeights(weights)
    /\ normRun' = normRun + 1
    /\ call' = [op |-> "normalizeWeights", arg |-> weights]
    /\ thrown' = "none"
    /\ UNCHANGED <<scoreHistory, iweights, storedWeights, ret, scorerVars, storeVars, rescoreVars, anomalyVars, migrationVars, tabVars, calls>>

\* ProductivityIntegration.updateWeights(newWeights)
UpdateWeights ==
    \E newWeights \in UpdateInputs :
        /\ iweights' = updateWeights(newWeights)
        /\ storedWeights' = JSONWeights(updateWeights(newWeights))
        /\ call' = [op |-> "updateWeights", arg |-> newWeights]
        /\ thrown' = "none"
        /\ UNCHANGED <<weights, scoreHistory, normRun, ret, scorerVars, storeVars, rescoreVars, anomalyVars, migrationVars, tabVars, calls>>

\* PriosScoring.normalizeWeights(weights)
CoreNormalizeWeights ==
    \E w \in PriosWeightInputs :
        /\ ret' = PriosScoring_normalizeWeights(w)
        /\ call' = [op |-> "PriosScoring.normalizeWeights", arg |-> w]
        /\ thrown' = "none"
        /\ UNCHANGED <<weights, scoreHistory, normRun, iweights, storedWeights, scorerVars, storeVars, rescoreVars, anomalyVars, migrationVars, tabVars, calls>>

NextNormalize == NormalizeWeights \/ UpdateWeights \/ CoreNormalizeWeights

SpecNormalize == InitNormalize /\ [][NextNormalize]_vars

-----------------------------------------------------------------------------
(* The weight vectors of a constructed RobustProductivityScoring and a     *)
(* constructed ProductivityIntegration under their mutators                *)

\* most evidence entries naming one component
MaxHits == 20

PriorStrengths == {0, 1, 10}

\* evidence lists, as hits per bestComponent
EvidenceInputs ==
    LET H(e, d, q, g, r, o) ==
            [effort |-> e, duration |-> d, quality |-> q, goals |-> g, rhythm |-> r, other |-> o]
    IN {H(0, 0, 0, 0, 0, 0), H(MaxHits, 0, 0, 0, 0, 0), H(1, 1, 1, 1, 1, 0),
        H(0, 0, 2, MaxHits, 0, 0), H(1, 0, 0, 0, 0, 1)}

InitWeights ==
    /\ RescoreIdle
    /\ AnomalyIdle
    /\ MigrationIdle
    /\ TabsIdle
    /\ StoreIdle
    /\ ScorerIdle
    /\ IntegrationIdle
    /\ RobustIdle
    /\ thrown = "none"

\* RobustProductivityScoring.bayesianUpdateWeights(evidence, priorStrength)
BayesianUpdateWeights ==
    \E hits \in EvidenceInputs, priorStrength \in PriorStrengths :
        /\ weights' = bayesianUpdateWeights(hits, priorStrength)
        /\ normRun' = 1
        /\ call' = [op |-> "bayesianUpdateWeights", arg |-> <<hits, priorStrength>>]
        /\ thrown' = "none"
        /\ UNCHANGED <<scoreHistory, iweights, storedWeights, ret, scorerVars, storeVars, rescoreVars, anomalyVars, migrationVars, tabVars, calls>>

\* RobustProductivityScoring.optimizeWeights(historicalData, externalOutcome)
OptimizeWeights ==
    \E data \in HistoryInputs, externalOutcome \in BOOLEAN :
        /\ weights' = optimizeWeights(weights, data, externalOutcome)
        /\ scoreHistory' = optimizeHistory(scoreHistory, data)
        /\ normRun' = IF Len(data) = 0 THEN normRun ELSE 0
        /\ call' = [op |-> "optimizeWeights", arg |-> <<data, externalOutcome>>]
        /\ thrown' = "none"
        /\ UNCHANGED <<iweights, storedWeights, ret, scorerVars, storeVars, rescoreVars, anomalyVars, migrationVars, tabVars, calls>>

NextWeights == BayesianUpdateWeights \/ OptimizeWeights \/ UpdateWeights

SpecWeights == InitWeights /\ [][NextWeights]_vars

-----------------------------------------------------------------------------
(* The composite scorers applied to component vectors                      *)

\* component vectors: all equal, mixed, out of range, not a number
ComponentInputs ==
    LET C(e, d, q, g, r) == [effort |-> e, duration |-> d, quality |-> q, goal |-> g, rhythm |-> r]
    IN {C(Num(v), Num(v), Num(v), Num(v), Num(v)) : v \in {0, 37, 50, 100}}
       \cup {C(Num(80), Num(60), Num(70), Num(50), Num(40)),
             C(Num(0), Num(100), Num(0), Num(100), Num(0)),
             C(Q(7408, 100), Num(90), Q(6065, 100), Num(75), Num(50)),
             C(Num(120), Num(-10), Num(50), Num(50), Num(50)),
             C(Num(50), NaN, Num(50), Num(50), Num(50))}

\* the weights a RobustProductivityScoring holds when it scores: those of the
\* constructor, of bayesianUpdateWeights and of optimizeWeights
ScoringWeightInputs ==
    LET H(e) == [effort |-> e, duration |-> 0, quality |-> 0, goals |-> 0, rhythm |-> 0,
                 other |-> 0]
    IN {normalizeWeights(constructorWeights),
        bayesianUpdateWeights(H(MaxHits), 1),
        bayesianUpdateWeights(H(1), 10),
        gridWeights(<<1, 1, 6, 1, 1>>),
        gridWeights(<<3, 2, 2, 2, 1>>)}

\* the components argument of calculateScore for the vector c
RobustComponents(c) ==
    [effort |-> c.effort, duration |-> c.duration, quality |-> c.quality,
     goals |-> c.goal, rhythm |-> c.rhythm]

\* most calculateScore calls on one object
MaxScoreCalls == 1

InitComposite ==
    /\ RescoreIdle
    /\ AnomalyIdle
    /\ MigrationIdle
    /\ TabsIdle
    /\ StoreIdle
    /\ ScorerIdle
    /\ IntegrationIdle
    /\ thrown = "none"
    /\ weights \in ScoringWeightInputs
    /\ scoreHistory = <<>>
    /\ call = [op |-> "new"]
    /\ normRun = 0
    /\ calls = 0

\* RobustProductivityScoring.calculateScore(components)
CalculateScore ==
    \E c \in ComponentInputs :
        /\ Len(scoreHistory) < MaxScoreCalls
        /\ ret' = calculateScore(weights, RobustComponents(c))
        /\ scoreHistory' = updateHistory(scoreHistory, weightedSum(weights, RobustComponents(c)))
        /\ call' = [op |-> "calculateScore", arg |-> c, w |-> weights]
        /\ thrown' = "none"
        /\ UNCHANGED <<weights, normRun, iweights, storedWeights, scorerVars, storeVars, rescoreVars, anomalyVars, migrationVars, tabVars, calls>>

\* PriosScoring.computeComposite(components, weights)
ComputeComposite ==
    \E c \in ComponentInputs, w \in PriosWeightInputs :
        /\ ret' = computeComposite(c, w)
        /\ call' = [op |-> "computeComposite", arg |-> c, w |-> w]
        /\ thrown' = "none"
        /\ UNCHANGED <<weights, scoreHistory, normRun, iweights, storedWeights, scorerVars, storeVars, rescoreVars, anomalyVars, migrationVars, tabVars, calls>>

\* ProductivityIntegration.calculateCompositeFromComponents(components)
CalculateCompositeFromComponents ==
    \E c \in ComponentInputs, core \in BOOLEAN :
        /\ ret' = calculateCompositeFromComponents(c, core)
        /\ call' = [op |-> "calculateCompositeFromComponents", arg |-> c,
                    w |-> DEFAULT_WEIGHTS]
        /\ thrown' = "none"
        /\ UNCHANGED <<weights, scoreHistory, normRun, iweights, storedWeights, scorerVars, storeVars, rescoreVars, anomalyVars, migrationVars, tabVars, calls>>

\* the composite calculateDailyProductivity stores for a day whose averaged
\* components are c
DailyComposite ==
    \E c \in ComponentInputs :
        /\ ret' = compositeScore(c)
        /\ call' = [op |-> "calculateDailyProductivity", arg |-> c,
                    w |-> [k \in PKeys |-> Q(25, 100)]]
        /\ thrown' = "none"
        /\ UNCHANGED <<weights, scoreHistory, normRun, iweights, storedWeights, scorerVars, storeVars, rescoreVars, anomalyVars, migrationVars, tabVars, calls>>

NextComposite ==
    CalculateScore \/ ComputeComposite \/ CalculateCompositeFromComponents \/ DailyComposite

SpecComposite == InitComposite /\ [][NextComposite]_vars

-----------------------------------------------------------------------------
(* The per-task scorers applied to one task record                         *)

Priorities == {"high", "medium", "low", "urgent", ""}
Durations == {-30, 0, 45, 60, 90, 120, 240}
Categories == {"work", "wellness", "errand", ""}
GoalIds == {0, 1, 2}
\* the goal lists tried: goal 1 exists or not, with or without a deadline;
\* goal 2 never exists
GoalLists ==
    {{}, {[id |-> 1, hasDeadline |-> FALSE, days |-> 0]},
     {[id |-> 1, hasDeadline |-> TRUE, days |-> 10]},
     {[id |-> 1, hasDeadline |-> TRUE, days |-> -3]}}

TaskInputs ==
    [priority : Priorities, duration : Durations, category : Categories,
     goalId : GoalIds, completed : BOOLEAN]

InitScorer ==
    /\ RescoreIdle
    /\ AnomalyIdle
    /\ MigrationIdle
    /\ TabsIdle
    /\ StoreIdle
    /\ RobustIdle
    /\ IntegrationIdle
    /\ task \in TaskInputs
    /\ goals \in GoalLists
    /\ scoringCore \in BOOLEAN
    /\ path = "none"
    /\ result = NoResult
    /\ thrown = "none"

\* task-manager.js calculateDailyProductivity: new Task(task).getProductivityComponents()
ScoreTaskManager ==
    /\ path = "none"
    /\ path' = "task-manager"
    /\ result' = getProductivityComponents(Task(task), goals)
    /\ UNCHANGED <<task, goals, scoringCore, thrown, weightVars, storeVars, rescoreVars, anomalyVars, migrationVars, tabVars, calls>>

\* integration-enhanced.js calculateDayScores: this.calculateTaskComponents(taskData)
ScoreEnhanced ==
    /\ path = "none"
    /\ path' = "enhanced"
    /\ result' = calculateTaskComponents(task)
    /\ UNCHANGED <<task, goals, scoringCore, thrown, weightVars, storeVars, rescoreVars, anomalyVars, migrationVars, tabVars, calls>>

\* integration.js calculateDayScore: this.calculateTaskScores(task)
ScoreIntegration ==
    /\ path = "none"
    /\ path' = "integration"
    /\ result' = calculateTaskScores(task, scoringCore)
    /\ UNCHANGED <<task, goals, scoringCore, thrown, weightVars, storeVars, rescoreVars, anomalyVars, migrationVars, tabVars, calls>>

NextScorer == ScoreTaskManager \/ ScoreEnhanced \/ ScoreIntegration

SpecScorer == InitScorer /\ [][NextScorer]_vars

-----------------------------------------------------------------------------
(***************************************************************************)
(* task-manager.js: the task store.  Every IndexedDB request is placed in  *)
(* `queue` by the code that issues it and completes later, oldest first;   *)
(* its onsuccess handler runs when it completes.  A user operation may be  *)
(* started between any two completions.                                    *)
(***************************************************************************)
MaxTasks == 2
MaxPending == 1

Dates == {"2024-03-01", "2024-03-02"}

\* the contents of the goals store
StoredGoals == {[id |-> 1, hasDeadline |-> FALSE, days |-> 0]}

\* what the task form hands to saveTask (id 0: no id yet)
StoreTaskInputs ==
    [id : {0}, date : Dates, priority : {"high"}, duration : {90}, category : {"work"},
     goalId : {0, 1}, completed : {TRUE}]

NoTask == [id |-> 0, date |-> "", priority |-> "", duration |-> 0, category |-> "",
           goalId |-> 0, completed |-> FALSE]

NoRecord == [date |-> "", effort |-> NaN, duration |-> NaN, quality |-> NaN, goal |-> NaN,
             composite |-> NaN, taskCount |-> 0]

Request(kind, t, id, record) == [kind |-> kind, task |-> t, id |-> id, record |-> record]

RECURSIVE totalOf(_, _, _)
totalOf(ts, gs, k) ==
    IF ts = {} THEN Num(0)
    ELSE LET t == CHOOSE x \in ts : \A y \in ts : x.id <= y.id
         IN Add(getProductivityComponents(Task(t), gs)[k], totalOf(ts \ {t}, gs, k))

\* the record calculateDailyProductivity builds from the tasks of one day
productivityData(date, dayTasks, gs) ==
    LET count == Num(Cardinality(dayTasks))
        avg == [effort |-> Div(totalOf(dayTasks, gs, "effort"), count),
                duration |-> Div(totalOf(dayTasks, gs, "duration"), count),
                quality |-> Div(totalOf(dayTasks, gs, "quality"), count),
                goal |-> Div(totalOf(dayTasks, gs, "goal"), count)]
    IN [date |-> date, effort |-> avg.effort, duration |-> avg.duration,
        quality |-> avg.quality, goal |-> avg.goal, composite |-> compositeScore(avg),
        taskCount |-> Cardinality(dayTasks)]

\* the requests calculateDailyProductivity(date) places, given the task list
calculateDailyProductivity(date, mem, gs) ==
    LET dayTasks == {t \in mem : t.date = date}
    IN IF dayTasks = {} THEN <<>>
       ELSE <<Request("productivity_scores.put", NoTask, 0,
                      productivityData(date, dayTasks, gs))>>

\* the requests loadData() places
loadData ==
    <<Request("loadData.taskRequest", NoTask, 0, NoRecord),
      Request("loadData.goalRequest", NoTask, 0, NoRecord)>>

StoreQuiet ==
    UNCHANGED <<task, scoringCore, path, result, thrown, weights, scoreHistory, normRun,
                iweights, storedWeights, ret, firstReturn, cusum, migrationVars, tabVars, calls>>

InitStore ==
    /\ RescoreIdle
    /\ AnomalyIdle
    /\ MigrationIdle
    /\ TabsIdle
    /\ RobustIdle
    /\ IntegrationIdle
    /\ StoreIdle
    /\ task = NoTask
    /\ goals = StoredGoals
    /\ scoringCore = TRUE
    /\ path = "none"
    /\ result = NoResult
    /\ thrown = "none"

\* saveTask(task): doSave places store.add(task) or store.put(task)
SaveTask ==
    \E t \in StoreTaskInputs, id \in 0..MaxTasks :
        /\ Len(queue) < MaxPending
        /\ id < nextId
        /\ id = 0 => nextId <= MaxTasks
        /\ queue' = Append(queue, Request("saveTask.request", [t EXCEPT !.id = id], 0, NoRecord))
        /\ call' = [op |-> "saveTask", date |-> t.date, found |-> TRUE]
        /\ UNCHANGED <<dbTasks, dbScores, tasks, nextId, goals>>
        /\ StoreQuiet

\* saveTask request.onsuccess: the task is stored; loadData() and
\* calculateDailyProductivity(task.date) run in the handler
SaveTaskSuccess ==
    /\ queue # <<>>
    /\ Head(queue).kind = "saveTask.request"
    /\ LET t == Head(queue).task
           newId == IF t.id # 0 THEN t.id ELSE nextId
           stored == [t EXCEPT !.id = newId]
       IN /\ dbTasks' = {x \in dbTasks : x.id # newId} \cup {stored}
          /\ nextId' = IF t.id # 0 THEN nextId ELSE nextId + 1
          /\ queue' = Tail(queue) \o loadData \o calculateDailyProductivity(t.date, tasks, goals)
    /\ UNCHANGED <<dbScores, tasks, goals, call>>
    /\ StoreQuiet

\* loadData taskRequest.onsuccess: tasks = taskRequest.result
TaskRequestSuccess ==
    /\ queue # <<>>
    /\ Head(queue).kind = "loadData.taskRequest"
    /\ tasks' = dbTasks
    /\ queue' = Tail(queue)
    /\ UNCHANGED <<dbTasks, dbScores, nextId, goals, call>>
    /\ StoreQuiet

\* loadData goalRequest.onsuccess: goals = goalRequest.result
GoalRequestSuccess ==
    /\ queue # <<>>
    /\ Head(queue).kind = "loadData.goalRequest"
    /\ goals' = StoredGoals
    /\ queue' = Tail(queue)
    /\ UNCHANGED <<dbTasks, dbScores, tasks, nextId, call>>
    /\ StoreQuiet

\* calculateDailyProductivity: store.put(productivityData) completes
ProductivityPut ==
    /\ queue # <<>>
    /\ Head(queue).kind = "productivity_scores.put"
    /\ LET r == Head(queue).record
       IN dbScores' = {x \in dbScores : x.date # r.date} \cup {r}
    /\ queue' = Tail(queue)
    /\ UNCHANGED <<dbTasks, tasks, nextId, goals, call>>
    /\ StoreQuiet

\* deleteTask(id): proceed places store1.get(Number(id))
DeleteTask ==
    \E id \in 1..MaxTasks :
        /\ Len(queue) < MaxPending
        /\ id < nextId
        /\ queue' = Append(queue, Request("deleteTask.req1", NoTask, id, NoRecord))
        /\ call' = [op |-> "deleteTask", date |-> "", found |-> FALSE]
        /\ UNCHANGED <<dbTasks, dbScores, tasks, nextId, goals>>
        /\ StoreQuiet

\* deleteTask req1.onsuccess: task = req1.result; store.delete(Number(id)) is placed
DeleteReq1Success ==
    /\ queue # <<>>
    /\ Head(queue).kind = "deleteTask.req1"
    /\ LET id == Head(queue).id
           found == {x \in dbTasks : x.id = id}
           t == IF found = {} THEN NoTask ELSE CHOOSE x \in found : TRUE
       IN /\ queue' = Tail(queue) \o <<Request("deleteTask.req", t, id, NoRecord)>>
          /\ call' = [op |-> "deleteTask", date |-> t.date, found |-> found # {}]
    /\ UNCHANGED <<dbTasks, dbScores, tasks, nextId, goals>>
    /\ StoreQuiet

\* deleteTask req.onsuccess: the task is gone; loadData() and, if the task
\* was found, calculateDailyProductivity(task.date) run in the handler
DeleteReqSuccess ==
    /\ queue # <<>>
    /\ Head(queue).kind = "deleteTask.req"
    /\ LET id == Head(queue).id
           t == Head(queue).task
       IN /\ dbTasks' = {x \in dbTasks : x.id # id}
          /\ queue' = Tail(queue) \o loadData \o
                      (IF t.id # 0 /\ t.date # ""
                       THEN calculateDailyProductivity(t.date, tasks, goals) ELSE <<>>)
    /\ UNCHANGED <<dbScores, tasks, nextId, goals, call>>
    /\ StoreQuiet

NextStore ==
    \/ SaveTask
    \/ SaveTaskSuccess
    \/ TaskRequestSuccess
    \/ GoalRequestSuccess
    \/ ProductivityPut
    \/ DeleteTask
    \/ DeleteReq1Success
    \/ DeleteReqSuccess

SpecStore == InitStore /\ [][NextStore]_vars

\* the tasks stored for a date, and the score records stored for it
tasksOn(date) == {t \in dbTasks : t.date = date}

scoresOn(date) == {r \in dbScores : r.date = date}

-----------------------------------------------------------------------------
(***************************************************************************)
(* RobustProductivityScoring.calculateRhythm and repeated scoring calls.   *)
(* Square roots are taken in hundredths (truncated); the stabilizer        *)
(* epsilon = 1e-6 is below that resolution and only decides the sign of a  *)
(* zero denominator.                                                       *)
(***************************************************************************)

\* x / (y + this.epsilon) for x >= 0 and y >= 0
DivStabilized(x, y) ==
    IF IsNaN(x) \/ IsNaN(y) THEN NaN
    ELSE IF y = Num(0) THEN (IF x = Num(0) THEN Num(0) ELSE PosInf)
    ELSE Div(x, y)

\* Math.sqrt(x) for a rational x >= 0, in hundredths
Sqrt(x) == IF IsNaN(x) THEN NaN ELSE Q(SqrtCenti(x), 100)

\* generateIdealPattern(): the standard work week
generateIdealPattern == <<Num(40), Num(70), Num(85), Num(85), Num(85), Num(70), Num(40)>>

\* pearsonCorrelation(x, y); den is sqrt(a) * sqrt(b) truncated to a whole
\* number, the quotient num / den is kept in thousandths
pearsonCorrelation(x, y) ==
    IF Len(x) # Len(y) \/ Len(x) = 0 THEN Num(0)
    ELSE LET n == Len(x)
             sumX == SumOver(x, 1, n)
             sumY == SumOver(y, 1, n)
             sumXY == SumOver([i \in 1..n |-> Mul(x[i], y[i])], 1, n)
             sumX2 == SumOver([i \in 1..n |-> Mul(x[i], x[i])], 1, n)
             sumY2 == SumOver([i \in 1..n |-> Mul(y[i], y[i])], 1, n)
             num == Sub(Mul(Num(n), sumXY), Mul(sumX, sumY))
             a == Sub(Mul(Num(n), sumX2), Mul(sumX, sumX))
             b == Sub(Mul(Num(n), sumY2), Mul(sumY, sumY))
             den == (SqrtCenti(a) * SqrtCenti(b)) \div 10000
         IN IF den = 0 THEN Num(0) ELSE Q(((num[1] \div num[2]) * 1000) \div den, 1000)

\* this.cmax = 1.5
cmax == Q(3, 2)

\* calculateRhythm() over the score history h
calculateRhythm(h) ==
    LET window == h
        n == Len(window)
        mean == Div(SumOver(window, 1, n), Num(n))
        variance == Div(SumOver([i \in 1..n |-> Mul(Sub(window[i], mean), Sub(window[i], mean))],
                                1, n), Num(n))
        stdDev == Sqrt(variance)
        CV == DivStabilized(stdDev, mean)
        C == Sub(Num(1), Div(MathMin(CV, cmax), cmax))
        idealPattern == generateIdealPattern
        Rp == IF n >= 5 /\ Len(idealPattern) = n
              THEN Div(Add(pearsonCorrelation(window, idealPattern), Num(1)), Num(2))
              ELSE Q(1, 2)
        R == Mul(Mul(Num(100), C), Rp)
    IN IF n < 2 THEN Num(50) ELSE Bound100(R)

\* most scoring calls observed on one object
MaxRescore == 3

\* the component vectors scored between two rhythm readings
RescoreInputs ==
    LET C(v) == [effort |-> Num(v), duration |-> Num(v), quality |-> Num(v),
                 goals |-> Num(v), rhythm |-> Num(v)]
    IN {C(0), C(60), C(100)}

\* a week of scores already in the history when observation starts
RescoreHistories ==
    {<<>>, <<Num(40), Num(60), Num(100), Num(100), Num(60), Num(60), Num(0)>>}

\* the value recorded for the call (op, arg): its first return value
Recorded(op, arg, value) ==
    IF \E r \in firstReturn : r.op = op /\ r.arg = arg
    THEN firstReturn
    ELSE firstReturn \cup {[op |-> op, arg |-> arg, value |-> value]}

InitRescore ==
    /\ StoreIdle
    /\ ScorerIdle
    /\ IntegrationIdle
    /\ RescoreIdle
    /\ AnomalyIdle
    /\ MigrationIdle
    /\ TabsIdle
    /\ thrown = "none"
    /\ weights = normalizeWeights(constructorWeights)
    /\ scoreHistory \in RescoreHistories
    /\ call = [op |-> "new"]
    /\ normRun = 1
    /\ calls = 0

\* calculateScore(components) on the observed object
RescoreCalculateScore ==
    \E c \in RescoreInputs :
        /\ Cardinality(firstReturn) < MaxRescore
        /\ ret' = calculateScore(weights, c)
        /\ scoreHistory' = updateHistory(scoreHistory, weightedSum(weights, c))
        /\ call' = [op |-> "calculateScore", arg |-> c, w |-> weights]
        /\ firstReturn' = Recorded("calculateScore", c, calculateScore(weights, c))
        /\ thrown' = "none"
        /\ UNCHANGED <<weights, normRun, iweights, storedWeights, scorerVars, storeVars, anomalyVars, migrationVars, tabVars, calls>>

\* calculateRhythm() on the observed object
RescoreCalculateRhythm ==
    /\ ret' = calculateRhythm(scoreHistory)
    /\ call' = [op |-> "calculateRhythm", arg |-> <<>>, w |-> weights]
    /\ firstReturn' = Recorded("calculateRhythm", <<>>, calculateRhythm(scoreHistory))
    /\ thrown' = "none"
    /\ UNCHANGED <<weights, scoreHistory, normRun, iweights, storedWeights, scorerVars,
                   storeVars, anomalyVars, migrationVars, tabVars, calls>>

NextRescore == RescoreCalculateScore \/ RescoreCalculateRhythm

SpecRescore == InitRescore /\ [][NextRescore]_vars

-----------------------------------------------------------------------------
(***************************************************************************)
(* Math.sin, Math.cos, Math.atan2, Math.sqrt, Math.log1p and Math.exp in   *)
(* fixed point: arguments and results are rounded to 1/10000.              *)
(***************************************************************************)

\* the whole number of 1/10000 in the finite rational x (rounded down); a
\* large denominator is shortened first so that the products stay in range
E4(x) ==
    LET r == x[1] % x[2]
        cut == IF x[2] < 200000 THEN 1 ELSE IF x[2] < 20000000 THEN 100 ELSE 10000
    IN (x[1] \div x[2]) * 10000 + ((r \div cut) * 10000) \div (x[2] \div cut)

\* Math.PI
MathPI == Q(31416, 10000)

\* sin of t/10000 rad for 0 <= t <= pi/2, in 1/10000: the Taylor series to t^9
SinSeries(t) ==
    LET t2 == (t * t) \div 10000
        u3 == ((t2 * t) \div 10000) \div 6
        u5 == ((u3 * t2) \div 10000) \div 20
        u7 == ((u5 * t2) \div 10000) \div 42
        u9 == ((u7 * t2) \div 10000) \div 72
    IN t - u3 + u5 - u7 + u9

\* sin of e/10000 rad for any whole e, in 1/10000, by reduction to a quarter turn
SinTurn(e) ==
    LET r == e % 62832
    IN IF r <= 15708 THEN SinSeries(r)
       ELSE IF r <= 31416 THEN SinSeries(31416 - r)
       ELSE IF r <= 47124 THEN -SinSeries(r - 31416)
       ELSE -SinSeries(62832 - r)

\* Math.sin(x)
MathSin(x) == IF ~IsFinite(x) THEN NaN ELSE Q(SinTurn(E4(x)), 10000)

\* Math.cos(x)
MathCos(x) == IF ~IsFinite(x) THEN NaN ELSE Q(SinTurn(E4(x) + 15708), 10000)

\* Math.sqrt(x) for 0 <= x < 21, to 1/10000
SqrtFine(x) == IF IsNaN(x) THEN NaN ELSE Q(ISqrtSearch(E4(x) * 10000, 0, 46340), 10000)

\* atan of q/10000 for 0 <= q <= 10000, in 1/10000: the argument is halved
\* twice by atan(x) = 2 atan(x / (1 + sqrt(1 + x^2))), then the series to z^7
AtanSeries(q) ==
    LET half(v) == (v * 10000) \div (10000 + ISqrtSearch((10000 + (v * v) \div 10000) * 10000,
                                                         0, 46340))
        z == half(half(q))
        z2 == (z * z) \div 10000
        z3 == (z2 * z) \div 10000
        z5 == (z3 * z2) \div 10000
        z7 == (z5 * z2) \div 10000
    IN 4 * (z - z3 \div 3 + z5 \div 5 - z7 \div 7)

\* Math.atan2(y, x) for finite y and x of magnitude at most 1
MathAtan2(y, x) ==
    IF IsNaN(y) \/ IsNaN(x) THEN NaN
    ELSE LET yy == E4(y)
             xx == E4(x)
             ay == Abs(yy)
             ax == Abs(xx)
             base == IF ax = 0 /\ ay = 0 THEN 0
                     ELSE IF ay <= ax THEN AtanSeries((ay * 10000) \div ax)
                     ELSE 15708 - AtanSeries((ax * 10000) \div ay)
             angle == IF xx >= 0 THEN base ELSE 31416 - base
         IN Q(IF yy < 0 THEN -angle ELSE angle, 10000)

\* Math.exp(-x) for a finite rational x >= 0: e^-n from a table for the whole
\* part n, times the series for the fraction taken in thousandths
MathExpNeg(x) ==
    LET whole == x[1] \div x[2]
        frac == ((x[1] % x[2]) * 1000) \div x[2]
        table == <<10000, 3679, 1353, 498, 183, 67, 25, 9, 3, 1>>
    IN IF IsNaN(x) THEN NaN
       ELSE IF whole >= 10 THEN Num(0)
       ELSE Q((table[whole + 1] * E4(ExpNeg(Q(frac, 1000)))) \div 10000, 10000)

\* Math.exp(x) for any finite rational x
MathExp(x) ==
    IF IsNaN(x) THEN NaN
    ELSE IF x[1] >= 0 THEN Div(Num(1), MathExpNeg(x))
    ELSE MathExpNeg(Neg(x))

\* Math.log1p(s) for a whole number s in 0..11, in 1/10000
Log1pE4(s) ==
    <<0, 6931, 10986, 13863, 16094, 17918, 19459, 20794, 21972, 23026, 23979, 24849>>[s + 1]

\* Math.tanh(x)
MathTanh(x) ==
    IF IsNaN(x) THEN NaN
    ELSE LET a == IF x[1] < 0 THEN Neg(x) ELSE x
             e == MathExpNeg(Mul(Num(2), a))
             t == Div(Sub(Num(1), e), Add(Num(1), e))
         IN IF x[1] < 0 THEN Neg(t) ELSE t

-----------------------------------------------------------------------------
(***************************************************************************)
(* rhythm-analyzer.js: RhythmAnalyzer.  Every intermediate double is kept  *)
(* to 1/10000.  A clock time "HH:MM" is the pair <<HH, MM>>, an attendance  *)
(* record is its onTime flag, a task record is [date, completed] and an    *)
(* activity record is the hour its timestamp falls in.                     *)
(***************************************************************************)

\* the double x kept to 1/10000
R4(x) == IF IsFinite(x) THEN Q(E4(x), 10000) ELSE x

\* this.config.weights
rhythmWeights ==
    [sleep |-> Q(30, 100), attendance |-> Q(20, 100), task |-> Q(30, 100),
     circadian |-> Q(20, 100)]

RhythmKeySeq == <<"sleep", "attendance", "task", "circadian">>

\* timeToMinutes(timeStr) of the string "HH:MM"
timeToMinutes(timeStr) == timeStr[1] * 60 + timeStr[2]

\* timeToRadians(minutes): (minutes / (24 * 60)) * 2 * Math.PI
timeToRadians(minutes) == R4(Mul(Mul(Q(minutes, 24 * 60), Num(2)), MathPI))

\* this.ideals, from idealSleepTime "22:30" and idealWakeTime "06:30"
ideals == [sleep |-> timeToMinutes(<<22, 30>>), wake |-> timeToMinutes(<<6, 30>>)]

RECURSIVE SumInts(_, _, _)
\* f[lo] + ... + f[hi], halving the range
SumInts(f, lo, hi) ==
    IF lo > hi THEN 0
    ELSE IF lo = hi THEN f[lo]
    ELSE SumInts(f, lo, (lo + hi) \div 2) + SumInts(f, (lo + hi) \div 2 + 1, hi)

\* the last record before record i that is not on time (0 when there is none)
lastAbsence(a, i) ==
    LET before == {j \in 1..(i - 1) : ~a[j]}
    IN IF before = {} THEN 0 ELSE CHOOSE j \in before : \A k \in before : k <= j

\* the records at which the forEach or the statement after it pushes a streak:
\* an on-time record followed by an absence or by the end of the data
streakEnds(a) == {i \in 1..Len(a) : a[i] /\ (i = Len(a) \/ ~a[i + 1])}

\* the value of currentStreak pushed at record i
streakAt(a, i) == i - lastAbsence(a, i)

\* streaks.reduce((sum, s) => sum + Math.log1p(s), 0)
streakLogSum(a) ==
    Q(SumInts([i \in 1..Len(a) |-> IF i \in streakEnds(a) THEN Log1pE4(streakAt(a, i)) ELSE 0],
              1, Len(a)), 10000)

\* streakBonus
streakBonus(a) ==
    IF streakEnds(a) # {} THEN R4(Div(streakLogSum(a), Num(Len(a)))) ELSE Num(0)

\* absences: the records that are not on time
absences(a) == {i \in 1..Len(a) : ~a[i]}

\* gaps, indexed by the later absence of each pair: absences[i] - absences[i-1]
gaps(a) == [i \in {j \in absences(a) : lastAbsence(a, j) # 0} |-> i - lastAbsence(a, i)]

\* irregularityPenalty: stdGap / meanGap over the gaps between absences; the
\* squares (g - meanGap)^2 are summed over the common denominator n^2
irregularityPenalty(a) ==
    LET g == gaps(a)
        n == Cardinality(DOMAIN g)
        at(f) == [i \in 1..Len(a) |-> IF i \in DOMAIN g THEN f[i] ELSE 0]
        total == SumInts(at(g), 1, Len(a))
        meanGap == Q(total, n)
        squares == SumInts(at([i \in DOMAIN g |-> (g[i] * n - total) * (g[i] * n - total)]),
                           1, Len(a))
        stdGap == SqrtFine(Q(squares, n * n * n))
    IN IF Cardinality(absences(a)) > 1
       THEN (IF Lt(Num(0), meanGap) THEN R4(Div(stdGap, meanGap)) ELSE Num(0))
       ELSE Num(0)

\* calculateAttendanceConsistency(attendanceData)
calculateAttendanceConsistency(a) ==
    LET onTime == Cardinality({i \in 1..Len(a) : a[i]})
        baseRate == R4(Q(onTime, Len(a)))
    IN IF Len(a) = 0 THEN Q(1, 2)
       ELSE MathMin(Num(1),
                    R4(Sub(Add(baseRate, R4(Mul(Q(2, 10), streakBonus(a)))),
                           R4(Mul(Q(1, 10), irregularityPenalty(a))))))

\* optimalWindows, in the order Object.entries visits them
optimalWindows ==
    <<[start |-> 10, end |-> 12, weight |-> Q(3, 10)],
      [start |-> 16, end |-> 18, weight |-> Q(3, 10)],
      [start |-> 13, end |-> 15, weight |-> Q(-2, 10)],
      [start |-> 23, end |-> 5, weight |-> Q(-5, 10)]>>

\* periodActivity of one window: for (hour = start; hour <= end; hour++)
periodActivity(config, activity) ==
    LET hours == {hour \in config.start..config.end : TRUE}
        count == Cardinality({i \in 1..Len(activity) : \E hour \in hours : activity[i] = hour % 24})
    IN R4(Q(count, Len(activity)))

RECURSIVE alignmentAfter(_, _)
\* alignmentScore after the first k windows, from the base score 0.5
alignmentAfter(k, activity) ==
    IF k = 0 THEN Q(1, 2)
    ELSE Add(alignmentAfter(k - 1, activity),
             Mul(optimalWindows[k].weight, periodActivity(optimalWindows[k], activity)))

\* calculateCircadianAlignment(activityData)
calculateCircadianAlignment(activity) ==
    IF Len(activity) = 0 THEN Q(1, 2)
    ELSE MathMin(Num(1), MathMax(Num(0), alignmentAfter(Len(optimalWindows), activity)))

\* circularStatistics(radians): the fields mean, variance and resultantLength.
\* The field stdDev = sqrt(-2 log R) is read by no caller and is left out.
circularStatistics(radians) ==
    LET n == Len(radians)
        sinSum == SumOver([i \in 1..n |-> MathSin(radians[i])], 1, n)
        cosSum == SumOver([i \in 1..n |-> MathCos(radians[i])], 1, n)
        meanSin == R4(Div(sinSum, Num(n)))
        meanCos == R4(Div(cosSum, Num(n)))
        R == SqrtFine(Add(R4(Mul(meanSin, meanSin)), R4(Mul(meanCos, meanCos))))
    IN [mean |-> MathAtan2(meanSin, meanCos),
        variance |-> Sub(Num(1), R),
        resultantLength |-> R]

\* circularDistance(angle1, angle2)
circularDistance(angle1, angle2) ==
    LET diff == AbsQ(Sub(angle1, angle2))
    IN MathMin(diff, Sub(Mul(Num(2), MathPI), diff))

\* calculateSleepConsistency(sleepData)
calculateSleepConsistency(sleepData) ==
    LET n == Len(sleepData)
        sleepRadians == [i \in 1..n |-> timeToRadians(timeToMinutes(sleepData[i].sleepTime))]
        wakeRadians == [i \in 1..n |-> timeToRadians(timeToMinutes(sleepData[i].wakeTime))]
        sleepStats == circularStatistics(sleepRadians)
        wakeStats == circularStatistics(wakeRadians)
        sleepDeviation == circularDistance(sleepStats.mean, timeToRadians(ideals.sleep))
        wakeDeviation == circularDistance(wakeStats.mean, timeToRadians(ideals.wake))
        consistencyScore ==
            MathExp(Mul(Num(-2), Add(sleepStats.variance, wakeStats.variance)))
        alignmentScore == MathExp(R4(Mul(Q(-1, 2), Add(sleepDeviation, wakeDeviation))))
    IN IF n = 0 THEN Q(1, 2)
       ELSE R4(Add(Mul(Q(6, 10), consistencyScore), Mul(Q(4, 10), alignmentScore)))

\* the k-th smallest member of the set of whole numbers P
Nth(P, k) == CHOOSE i \in P : Cardinality({j \in P : j < i}) = k - 1

\* Object.values(dailyRates).map(d => d.completed / d.total): one rate per
\* date, in the order the dates first appear
dailyRates(taskData) ==
    LET first == {i \in 1..Len(taskData) :
                    \A j \in 1..(i - 1) : taskData[j].date # taskData[i].date}
        on(d) == {i \in 1..Len(taskData) : taskData[i].date = d}
        rate(d) == Q(Cardinality({i \in on(d) : taskData[i].completed}), Cardinality(on(d)))
    IN [k \in 1..Cardinality(first) |-> rate(taskData[Nth(first, k)].date)]

\* calculateTrend(values): the least-squares slope over x = 0, 1, ...
calculateTrend(values) ==
    LET n == Len(values)
        sumX == SumInts([i \in 1..n |-> i - 1], 1, n)
        sumY == SumOver(values, 1, n)
        sumXY == SumOver([i \in 1..n |-> Mul(Num(i - 1), values[i])], 1, n)
        sumX2 == SumInts([i \in 1..n |-> (i - 1) * (i - 1)], 1, n)
    IN R4(Div(Sub(Mul(Num(n), sumXY), Mul(Num(sumX), sumY)),
              Num(n * sumX2 - sumX * sumX)))

\* detectWeeklyPattern(values)
detectWeeklyPattern(values) ==
    LET weeklyFreq == 7
        m == Len(values) - weeklyFreq
        weeklyComponent ==
            SumOver([i \in 1..m |-> AbsQ(Sub(values[i], values[i + weeklyFreq]))], 1, m)
    IN IF Len(values) < 14 THEN Num(0) ELSE R4(Div(weeklyComponent, Num(m)))

\* calculateTaskCompletionConsistency(taskData)
calculateTaskCompletionConsistency(taskData) ==
    LET rates == dailyRates(taskData)
        n == Len(rates)
        mean == R4(Div(SumOver(rates, 1, n), Num(n)))
        variance ==
            R4(Div(SumOver([i \in 1..n |-> R4(Mul(Sub(rates[i], mean), Sub(rates[i], mean)))],
                           1, n), Num(n)))
        cv == R4(Div(SqrtFine(variance), Add(mean, Q(1, 1000))))
        consistencyScore ==
            R4(Div(Num(1), Add(Num(1), MathExp(R4(Mul(Num(5), Sub(cv, Q(1, 2))))))))
        trendBonus ==
            IF n > 7 THEN MathTanh(R4(Mul(calculateTrend(rates), Num(10)))) ELSE Num(0)
        periodicityScore == IF n > 14 THEN Sub(Num(1), detectWeeklyPattern(rates)) ELSE Q(1, 2)
    IN IF Len(taskData) = 0 THEN Q(1, 2)
       ELSE R4(Add(Add(Mul(Q(5, 10), consistencyScore), Mul(Q(3, 10), periodicityScore)),
                   R4(Mul(Q(2, 10), MathMax(Num(0), trendBonus)))))

\* generateInsights(components): the type and category of each insight pushed
generateInsights(components) ==
    (IF Lt(components.sleep, Q(5, 10)) THEN <<[type |-> "warning", category |-> "sleep"]>>
     ELSE IF Lt(Q(8, 10), components.sleep)
          THEN <<[type |-> "success", category |-> "sleep"]>>
     ELSE <<>>)
    \o (IF Lt(components.task, Q(4, 10)) THEN <<[type |-> "warning", category |-> "task"]>>
        ELSE <<>>)
    \o (IF Lt(components.circadian, Q(5, 10))
        THEN <<[type |-> "info", category |-> "circadian"]>>
        ELSE <<>>)

\* the components object built by computeRhythmScore
rhythmComponents(data) ==
    [sleep |-> calculateSleepConsistency(data.sleepData),
     attendance |-> calculateAttendanceConsistency(data.attendanceData),
     task |-> calculateTaskCompletionConsistency(data.taskData),
     circadian |-> calculateCircadianAlignment(data.activityData)]

\* computeRhythmScore(data) once the components object is built
rhythmScore(components) ==
    LET used == [i \in 1..Len(RhythmKeySeq) |-> Lt(Num(0), components[RhythmKeySeq[i]])]
        harmonicSum ==
            SumOver([i \in 1..Len(RhythmKeySeq) |->
                        IF used[i]
                        THEN R4(Div(rhythmWeights[RhythmKeySeq[i]], components[RhythmKeySeq[i]]))
                        ELSE Num(0)], 1, Len(RhythmKeySeq))
        weightSum ==
            SumOver([i \in 1..Len(RhythmKeySeq) |->
                        IF used[i] THEN rhythmWeights[RhythmKeySeq[i]] ELSE Num(0)],
                    1, Len(RhythmKeySeq))
        harmonicMean ==
            IF Lt(Num(0), weightSum) THEN R4(Div(weightSum, harmonicSum)) ELSE Num(0)
    IN [composite |-> MathMin(Num(100), MathMax(Num(0), Mul(harmonicMean, Num(100)))),
        components |-> [sleep |-> Mul(components.sleep, Num(100)),
                        attendance |-> Mul(components.attendance, Num(100)),
                        task |-> Mul(components.task, Num(100)),
                        circadian |-> Mul(components.circadian, Num(100))],
        insights |-> generateInsights(components)]

\* computeRhythmScore(data)
computeRhythmScore(data) == rhythmScore(rhythmComponents(data))

-----------------------------------------------------------------------------
(***************************************************************************)
(* The rhythm analyzer called on small data sets: each action is one call  *)
(* of a method of RhythmAnalyzer, recorded in call and ret.                *)
(***************************************************************************)

MaxAttendance == 4

\* sleep records: none, one, the overnight pair of the edge-case test
SleepInputs ==
    {<<>>,
     <<[sleepTime |-> <<22, 0>>, wakeTime |-> <<6, 0>>]>>,
     <<[sleepTime |-> <<22, 0>>, wakeTime |-> <<6, 30>>]>>,
     <<[sleepTime |-> <<10, 30>>, wakeTime |-> <<18, 30>>]>>,
     <<[sleepTime |-> <<23, 30>>, wakeTime |-> <<7, 0>>],
       [sleepTime |-> <<0, 30>>, wakeTime |-> <<8, 0>>]>>}

\* 200 attendance records of which only the 100th is on time
longAbsence == [i \in 1..200 |-> i = 100]

\* every attendance list of at most MaxAttendance records
ShortAttendance == UNION {[1..n -> BOOLEAN] : n \in 0..MaxAttendance}

AttendanceInputs == ShortAttendance \cup {longAbsence}

\* one task a day over n days, completed on the days in done
DailyTasks(n, done) == [i \in 1..n |-> [date |-> i, completed |-> i \in done]]

TaskDataInputs ==
    {<<>>, DailyTasks(1, {1}), DailyTasks(1, {}),
     <<[date |-> 1, completed |-> TRUE], [date |-> 1, completed |-> FALSE],
       [date |-> 2, completed |-> FALSE]>>,
     DailyTasks(8, 5..8), DailyTasks(15, {1, 3, 5, 7, 9, 11, 13, 15})}

\* the hours of the activity records
ActivityInputs ==
    {<<>>, <<14>>, <<23, 0, 1, 2>>, <<23, 23, 3, 5>>, <<10, 11, 16, 14>>, <<13, 14, 15, 15>>,
     <<9, 23>>}

\* lists of clock times given to circularStatistics through timeToRadians
ClockInputs ==
    {<<<<23, 30>>, <<0, 30>>>>,
     <<<<22, 0>>, <<22, 30>>, <<23, 0>>, <<23, 30>>, <<0, 0>>>>,
     <<<<12, 0>>, <<0, 0>>>>,
     <<<<6, 0>>>>,
     <<<<11, 0>>, <<13, 0>>>>}

\* the lists of which computeRhythmScore is given every combination
RhythmAttendance == {<<>>, <<TRUE>>, <<FALSE>>}
RhythmTasks == {<<>>, DailyTasks(1, {1})}
RhythmActivity == {<<>>, <<23, 0, 1, 2>>}

\* the variables the rhythm analyzer does not touch
RhythmQuiet ==
    UNCHANGED <<weights, scoreHistory, normRun, iweights, storedWeights, thrown, task, goals,
                scoringCore, path, storeVars, rescoreVars, anomalyVars, migrationVars, tabVars, calls>>

\* ret when the last call returned no number; result is NoResult when it
\* returned no object
NoReturn == <<>>

\* a new RhythmAnalyzer: no method has returned a number or an object yet
InitRhythm ==
    /\ StoreIdle
    /\ ScorerIdle
    /\ RobustIdle
    /\ RescoreIdle
    /\ AnomalyIdle
    /\ MigrationIdle
    /\ TabsIdle
    /\ iweights = integrationWeights
    /\ storedWeights = "unset"
    /\ ret = NoReturn
    /\ thrown = "none"

CalculateSleepConsistency ==
    \E d \in SleepInputs :
        /\ call' = [op |-> "calculateSleepConsistency", arg |-> d]
        /\ ret' = calculateSleepConsistency(d)
        /\ result' = NoResult
        /\ RhythmQuiet

CalculateAttendanceConsistency ==
    \E d \in AttendanceInputs :
        /\ call' = [op |-> "calculateAttendanceConsistency", arg |-> d]
        /\ ret' = calculateAttendanceConsistency(d)
        /\ result' = NoResult
        /\ RhythmQuiet

CalculateTaskCompletionConsistency ==
    \E d \in TaskDataInputs :
        /\ call' = [op |-> "calculateTaskCompletionConsistency", arg |-> d]
        /\ ret' = calculateTaskCompletionConsistency(d)
        /\ result' = NoResult
        /\ RhythmQuiet

CalculateCircadianAlignment ==
    \E d \in ActivityInputs :
        /\ call' = [op |-> "calculateCircadianAlignment", arg |-> d]
        /\ ret' = calculateCircadianAlignment(d)
        /\ result' = NoResult
        /\ RhythmQuiet

\* circularStatistics(times.map(t => timeToRadians(t))); the object returned is
\* kept in result
CircularStatistics ==
    \E times \in ClockInputs :
        /\ call' = [op |-> "circularStatistics", arg |-> times]
        /\ result' = circularStatistics([i \in 1..Len(times) |->
                                           timeToRadians(timeToMinutes(times[i]))])
        /\ ret' = NoReturn
        /\ RhythmQuiet

\* computeRhythmScore(data); the object the promise resolves to is kept in result
ComputeRhythmScore ==
    \E s \in SleepInputs, a \in RhythmAttendance, t \in RhythmTasks, h \in RhythmActivity :
        LET data == [sleepData |-> s, attendanceData |-> a, taskData |-> t,
                     activityData |-> h]
        IN /\ call' = [op |-> "computeRhythmScore", arg |-> data]
           /\ \E components \in {rhythmComponents(data)} : result' = rhythmScore(components)
           /\ ret' = NoReturn
           /\ RhythmQuiet

NextRhythm ==
    \/ CalculateSleepConsistency
    \/ CalculateAttendanceConsistency
    \/ CalculateTaskCompletionConsistency
    \/ CalculateCircadianAlignment
    \/ CircularStatistics
    \/ ComputeRhythmScore

SpecRhythm == InitRhythm /\ [][NextRhythm]_vars

-----------------------------------------------------------------------------
(***************************************************************************)
(* Anomaly detection: cusumEwmaAnomalies and computeAnomalies, which       *)
(* robust-productivity-scoring.js and productivity-viz.js both define.     *)
(* Array indices are kept as in the code (from 0); the sequence element    *)
(* of index t is the (t+1)-th.  ewma is kept to 1/10000.                   *)
(***************************************************************************)

(***************************************************************************)
(* Numbers of 2^56 and more.  A double of that size is an integer, and the *)
(* doubles around it are 16 or more apart, so 0.2*x + 0.8*x need not be x. *)
(* Such a number is kept as ten limbs of 13 bits, least significant first; *)
(* every other number is a pair <<n, d>>, so the length tells the two      *)
(* kinds apart.  Products and sums are rounded to 53 significant bits, to  *)
(* the nearest, ties to even, as the double operations round them.         *)
(***************************************************************************)

limbBase == 8192

pow2 == <<1, 2, 4, 8, 16, 32, 64, 128, 256, 512, 1024, 2048, 4096>>

isLarge(x) == Len(x) = 10

\* bit i of x, from bit 0
largeBit(x, i) == (x[(i \div 13) + 1] \div pow2[(i % 13) + 1]) % 2

\* the number of significant bits of x
largeBits(x) ==
    IF \A i \in 1..10 : x[i] = 0 THEN 0
    ELSE LET top == CHOOSE i \in 1..10 : x[i] # 0 /\ \A j \in (i + 1)..10 : x[j] = 0
             bits == CHOOSE b \in 1..13 : pow2[b] <= x[top] /\ (b = 13 \/ x[top] < pow2[b + 1])
         IN 13 * (top - 1) + bits

\* a + b, exactly
largeAdd(a, b) ==
    LET carry[i \in 0..10] == IF i = 0 THEN 0 ELSE (a[i] + b[i] + carry[i - 1]) \div limbBase
        d(i) == (a[i] + b[i] + carry[i - 1]) % limbBase
    IN <<d(1), d(2), d(3), d(4), d(5), d(6), d(7), d(8), d(9), d(10)>>

\* a < b
largeLess(a, b) == \E i \in 1..10 : a[i] < b[i] /\ \A j \in (i + 1)..10 : a[j] = b[j]

\* a - b for a >= b, exactly
largeSub(a, b) ==
    LET borrow[i \in 0..10] ==
            IF i = 0 THEN 0 ELSE IF a[i] - b[i] - borrow[i - 1] < 0 THEN 1 ELSE 0
        d(i) == (a[i] - b[i] - borrow[i - 1] + limbBase) % limbBase
    IN <<d(1), d(2), d(3), d(4), d(5), d(6), d(7), d(8), d(9), d(10)>>

\* a * b, exactly, for a and b below 2^65
largeMul(a, b) ==
    LET col(k) == SumInts([i \in 1..k |-> a[i] * b[k + 1 - i]], 1, k)
        carry[k \in 0..10] == IF k = 0 THEN 0 ELSE (col(k) + carry[k - 1]) \div limbBase
        d(k) == (col(k) + carry[k - 1]) % limbBase
    IN <<d(1), d(2), d(3), d(4), d(5), d(6), d(7), d(8), d(9), d(10)>>

\* x rounded to 53 significant bits, to the nearest, ties to even
round53(x) ==
    LET s == largeBits(x) - 53
        up == /\ largeBit(x, s - 1) = 1
              /\ largeBit(x, s) = 1 \/ \E i \in 0..(s - 2) : largeBit(x, i) = 1
        cut(i) == LET lo == 13 * (i - 1)
                  IN IF lo + 13 <= s THEN 0
                     ELSE IF lo >= s THEN x[i]
                     ELSE (x[i] \div pow2[s - lo + 1]) * pow2[s - lo + 1]
        unit(i) == IF (s \div 13) + 1 = i THEN pow2[(s % 13) + 1] ELSE 0
        down == <<cut(1), cut(2), cut(3), cut(4), cut(5), cut(6), cut(7), cut(8), cut(9), cut(10)>>
    IN IF s <= 0 THEN x
       ELSE IF up THEN largeAdd(down, <<unit(1), unit(2), unit(3), unit(4), unit(5),
                                        unit(6), unit(7), unit(8), unit(9), unit(10)>>)
       ELSE down

\* the double 0.2, times 2^65
lambdaLarge == <<2048, 4915, 6553, 3276, 1638, 0, 0, 0, 0, 0>>

\* the double 1 - 0.2, times 2^65
restLarge == <<0, 3277, 1638, 4915, 6553, 0, 0, 0, 0, 0>>

\* the double product of x and m / 2^65
largeTimes(x, m) ==
    CHOOSE r \in {<<p[6], p[7], p[8], p[9], p[10], 0, 0, 0, 0, 0>> :
                     p \in {round53(q) : q \in {largeMul(x, m)}}} : TRUE

\* the double sum of a and b
largePlus(a, b) == CHOOSE r \in {round53(s) : s \in {largeAdd(u, v) : u \in {a}, v \in {b}}} : TRUE

\* a - b as a number <<n, d>>, for a and b less than 2^26 apart
largeMinus(a, b) ==
    IF largeLess(a, b)
    THEN CHOOSE r \in {Num(0 - (d[1] + limbBase * d[2])) : d \in {largeSub(b, a)}} : TRUE
    ELSE CHOOSE r \in {Num(d[1] + limbBase * d[2]) : d \in {largeSub(a, b)}} : TRUE

\* a < b and a <= b for two numbers of the same kind
lessThan(a, b) == IF isLarge(a) THEN largeLess(a, b) ELSE Lt(a, b)

atMost(a, b) == IF isLarge(a) THEN a = b \/ largeLess(a, b) ELSE Le(a, b)

\* a - b for two numbers of the same kind
deviation(a, b) == IF isLarge(a) THEN largeMinus(a, b) ELSE Sub(a, b)

\* lambda*x + (1-lambda)*e
ewmaNext(x, e) ==
    IF isLarge(x)
    THEN largePlus(largeTimes(x, lambdaLarge), largeTimes(e, restLarge))
    ELSE R4(Add(Mul(Q(2, 10), x), Mul(Sub(Num(1), Q(2, 10)), e)))

RECURSIVE sumRange(_, _, _)
\* f[lo] + ... + f[hi]
sumRange(f, lo, hi) ==
    IF lo > hi THEN Num(0)
    ELSE IF lo = hi THEN f[lo]
    ELSE Add(sumRange(f, lo, (lo + hi) \div 2), sumRange(f, (lo + hi) \div 2 + 1, hi))

\* arr.slice().sort((a,b)=>a-b)[k]: the element with at most k elements below
\* it and more than k elements not above it
sortedAt(arr, k) ==
    CHOOSE x \in {arr[i] : i \in 1..Len(arr)} :
        /\ Cardinality({i \in 1..Len(arr) : lessThan(arr[i], x)}) <= k
        /\ k < Cardinality({i \in 1..Len(arr) : atMost(arr[i], x)})

\* the locals of cusumEwmaAnomalies(series) when its loop is entered (n > 0)
cusumStart(series) ==
    LET n == Len(series)
        med == sortedAt(series, n \div 2)
        mad == Div(sumRange([i \in 1..n |-> AbsQ(deviation(series[i], med))], 1, n), Num(n))
    IN [pc |-> "loop", series |-> series, t |-> 1,
        ewma |-> [i \in 1..n |-> IF i = 1 THEN series[1] ELSE Num(0)],
        pos |-> [i \in 1..n |-> Num(0)],
        neg |-> [i \in 1..n |-> Num(0)],
        med |-> med,
        h |-> IF Lt(Num(0), mad) THEN Mul(Num(5), mad) ELSE Num(10),
        idxs |-> <<>>]

\* cusumStep without the reset of pos[t] and neg[t] at a flagged index
cusumStep_noReset(c) ==
    LET kk == Q(5, 10)
        t == c.t
        e == ewmaNext(c.series[t + 1], c.ewma[t])
        p == MathMax(Num(0), Add(c.pos[t], Sub(deviation(e, c.med), kk)))
        m == MathMax(Num(0), Sub(c.neg[t], Add(deviation(e, c.med), kk)))
        flag == Lt(c.h, p) \/ Lt(c.h, m)
    IN [c EXCEPT !.t = t + 1,
                 !.ewma[t + 1] = e,
                 !.pos[t + 1] = p,
                 !.neg[t + 1] = m,
                 !.idxs = IF flag THEN Append(c.idxs, t) ELSE c.idxs]

\* one pass of the loop body, for t = c.t
cusumStep(c) ==
    LET kk == Q(5, 10)
        t == c.t
        e == ewmaNext(c.series[t + 1], c.ewma[t])
        p == MathMax(Num(0), Add(c.pos[t], Sub(deviation(e, c.med), kk)))
        m == MathMax(Num(0), Sub(c.neg[t], Add(deviation(e, c.med), kk)))
        flag == Lt(c.h, p) \/ Lt(c.h, m)
    IN [c EXCEPT !.t = t + 1,
                 !.ewma[t + 1] = e,
                 !.pos[t + 1] = IF flag THEN Num(0) ELSE p,
                 !.neg[t + 1] = IF flag THEN Num(0) ELSE m,
                 !.idxs = IF flag THEN Append(c.idxs, t) ELSE c.idxs]

\* line.slice(0, 7)
slice7(line) == SubSeq(line, 1, IF Len(line) < 7 THEN Len(line) ELSE 7)

RECURSIVE flatMap7(_, _)
\* values.flatMap(line => line.slice(0, 7)) over the lines from the i-th on
flatMap7(values, i) ==
    IF i > Len(values) THEN <<>> ELSE slice7(values[i]) \o flatMap7(values, i + 1)

\* Array.from of the Set to which f[1], f[2], ... were added in turn: the first
\* occurrences, in order
addAll(f) ==
    LET firsts == {i \in 1..Len(f) : \A j \in 1..(i - 1) : f[j] # f[i]}
    IN [k \in 1..Cardinality(firsts) |->
           f[CHOOSE i \in firsts : Cardinality({j \in firsts : j < i}) = k - 1]]

\* the means of method 'isolation'; robust-productivity-scoring.js divides by
\* slice.length (0 for an empty slice), productivity-viz.js by 7
lineMeans(values, file) ==
    [i \in 1..Len(values) |->
        LET slice == slice7(values[i])
            sum == SumOver(slice, 1, Len(slice))
        IN IF file = "productivity-viz" THEN Div(sum, Num(7))
           ELSE IF Len(slice) # 0 THEN Div(sum, Num(Len(slice))) ELSE Num(0)]

\* the anomalies of method 'cusum', from the idxs cusumEwmaAnomalies returned:
\* Math.floor(i / 7) of every flagged index
cusumEntries(idxs) == addAll([j \in 1..Len(idxs) |-> idxs[j] \div 7])

\* the anomalies of method 'isolation' (indices from 0)
isolationEntries(values, file) ==
    LET means == lineMeans(values, file)
        n == Len(means)
        q1 == IF n = 0 THEN Num(0) ELSE OrElse(sortedAt(means, n \div 4), Num(0))
        q3 == IF n = 0 THEN Num(0) ELSE OrElse(sortedAt(means, (3 * n) \div 4), Num(0))
        iqr == OrElse(Sub(q3, q1), Num(1))
        out(m) == \/ Lt(m, Sub(q1, Mul(Q(15, 10), iqr)))
                  \/ Lt(Add(q3, Mul(Q(15, 10), iqr)), m)
    IN addAll(SelectSeq([i \in 1..n |-> i - 1], LAMBDA idx : out(means[idx + 1])))

\* the anomalies of method 'ensemble': the entries of a, the 'cusum' anomalies,
\* that b, the 'isolation' anomalies, has
ensembleEntries(a, b) == addAll(SelectSeq(a, LAMBDA i : \E j \in 1..Len(b) : b[j] = i))

-----------------------------------------------------------------------------
(***************************************************************************)
(* The anomaly functions called on small series and datasets.  The loop of  *)
(* cusumEwmaAnomalies runs one pass at a time, whether the function was    *)
(* called by itself or by computeAnomalies.  The array [idxs, ewma] that   *)
(* cusumEwmaAnomalies returns to the page is kept in result; the array of  *)
(* entry indices that computeAnomalies returns is kept in ret.             *)
(***************************************************************************)

MaxSeries == 5

SeriesValues == {Num(0), Num(100)}

\* the double k * 2^52, which is 2^56 for k = 16
large(k) == <<0, 0, 0, 0, k, 0, 0, 0, 0, 0>>

\* every series of at most MaxSeries values, and a few longer or other ones
SeriesInputs ==
    UNION {[1..n -> SeriesValues] : n \in 0..MaxSeries}
    \cup {<<Num(37), Num(37), Num(37)>>,
          <<PosInf, PosInf>>,
          <<Num(0), Num(100), Num(100), Num(100), Num(100), Num(100)>>,
          <<Num(0), Num(0), Num(0), Num(0), Num(100), Num(0), Num(0), Num(0), Num(0)>>,
          <<large(16), large(16), large(16)>>,
          <<large(48), large(48), large(48)>>,
          <<large(112), large(112), large(112), large(112)>>}

\* a line whose first seven values are all v
Line(v) == [i \in 1..7 |-> Num(v)]

DatasetInputs ==
    {<<>>,
     <<Line(50), Line(50), Line(50), Line(50), Line(51)>>,
     <<Line(50), Line(50), Line(50), Line(50), Line(90)>>,
     <<Line(10), Line(20), Line(30), Line(40), Line(100)>>,
     <<Line(0), Line(100), Line(100)>>,
     <<<<Num(0), Num(100), Num(100), Num(100), Num(0), Num(0), Num(0), Num(100)>>,
       Line(40), Line(40)>>,
     <<<<Num(10), Num(20), Num(30)>>, Line(20), Line(20), Line(90)>>}

Methods == {"cusum", "isolation", "ensemble"}

Files == {"robust-productivity-scoring", "productivity-viz"}

\* the variables the anomaly functions do not touch
AnomalyQuiet ==
    UNCHANGED <<weights, scoreHistory, normRun, iweights, storedWeights, thrown, task, goals,
                scoringCore, path, storeVars, rescoreVars, migrationVars, tabVars, calls>>

\* the page after load: no anomaly function has been called
InitAnomaly ==
    /\ StoreIdle
    /\ ScorerIdle
    /\ RobustIdle
    /\ RescoreIdle
    /\ AnomalyIdle
    /\ MigrationIdle
    /\ TabsIdle
    /\ iweights = integrationWeights
    /\ storedWeights = "unset"
    /\ ret = NoReturn
    /\ thrown = "none"

\* cusumEwmaAnomalies(series) up to its loop; an empty series returns at once
CusumCall ==
    \E series \in SeriesInputs :
        /\ cusum.pc = "idle"
        /\ call' = [op |-> "cusumEwmaAnomalies", arg |-> [series |-> series]]
        /\ IF Len(series) = 0
           THEN /\ result' = [idxs |-> <<>>, ewma |-> <<>>]
                /\ cusum' = cusum
           ELSE /\ result' = NoResult
                /\ cusum' = cusumStart(series)
        /\ ret' = NoReturn
        /\ AnomalyQuiet

\* one pass of for (let t = 1; t < n; t++)
CusumIterate ==
    /\ cusum.pc = "loop"
    /\ cusum.t < Len(cusum.series)
    /\ cusum' = cusumStep(cusum)
    /\ UNCHANGED <<call, ret, result>>
    /\ AnomalyQuiet

\* return [idxs, ewma] of a call of cusumEwmaAnomalies by itself
CusumReturn ==
    /\ cusum.pc = "loop"
    /\ ~(cusum.t < Len(cusum.series))
    /\ call.op = "cusumEwmaAnomalies"
    /\ result' = [idxs |-> cusum.idxs, ewma |-> cusum.ewma]
    /\ cusum' = cusumIdle
    /\ UNCHANGED <<call, ret>>
    /\ AnomalyQuiet

\* computeAnomalies(dataset, method) of one of the two files, every item of
\* dataset an array, up to the loop of the cusumEwmaAnomalies it calls; method
\* 'isolation' returns without such a call, and so does an empty flat
ComputeAnomalies ==
    \E dataset \in DatasetInputs, method \in Methods, file \in Files :
        /\ cusum.pc = "idle"
        /\ call' = [op |-> "computeAnomalies",
                    arg |-> [dataset |-> dataset, method |-> method, file |-> file]]
        /\ result' = NoResult
        /\ IF method = "isolation"
           THEN /\ ret' = isolationEntries(dataset, file)
                /\ cusum' = cusum
           ELSE \E flat \in {flatMap7(dataset, 1)} :
                    IF Len(flat) = 0
                    THEN /\ ret' = <<>>
                         /\ cusum' = cusum
                    ELSE /\ ret' = NoReturn
                         /\ cusum' = cusumStart(flat)
        /\ AnomalyQuiet

\* the rest of computeAnomalies once cusumEwmaAnomalies has returned; for
\* 'ensemble' the 'isolation' anomalies are computed next
ComputeAnomaliesReturn ==
    /\ cusum.pc = "loop"
    /\ ~(cusum.t < Len(cusum.series))
    /\ call.op = "computeAnomalies"
    /\ ret' = IF call.arg.method = "cusum" THEN cusumEntries(cusum.idxs)
              ELSE ensembleEntries(cusumEntries(cusum.idxs),
                                   isolationEntries(call.arg.dataset, call.arg.file))
    /\ cusum' = cusumIdle
    /\ UNCHANGED <<call, result>>
    /\ AnomalyQuiet

NextAnomaly ==
    \/ CusumCall
    \/ CusumIterate
    \/ CusumReturn
    \/ ComputeAnomalies
    \/ ComputeAnomaliesReturn

SpecAnomaly == InitAnomaly /\ [][NextAnomaly]_vars

-----------------------------------------------------------------------------
(***************************************************************************)
(* applyOptimizer(data, method) of robust-productivity-scoring.js and of   *)
(* productivity-viz.js.  Of every entry it returns, the model keeps the    *)
(* composite: the clamped value pushed as the 8th value of the entry.      *)
(***************************************************************************)

\* the entry.value applyOptimizer works on: robust-productivity-scoring.js
\* passes an array item through normalizeLineEntry, which pads it with 0 to 8
\* values and cuts it at 8; productivity-viz.js takes the line as it is
entryValues(item, file) ==
    IF file = "productivity-viz" THEN item
    ELSE [i \in 1..8 |-> IF i <= Len(item) THEN item[i] ELSE Num(0)]

\* the value of one entry before clamping, from vals = value.slice(0, 7)
optimizerValue(vals, method, file) ==
    LET n == Len(vals)
        guarded == file # "productivity-viz" /\ n = 0
        mean == IF guarded THEN Num(0) ELSE Div(sumRange(vals, 1, n), Num(n))
        variance == IF guarded THEN Num(0)
                    ELSE Div(sumRange([i \in 1..n |-> Mul(Sub(vals[i], mean), Sub(vals[i], mean))],
                                      1, n), Num(n))
        std == Sqrt(variance)
        prior == Num(60)
        tau2 == Num(400)
        sigma2 == OrElse(variance, Num(1))
        w == Div(tau2, Add(tau2, sigma2))
    IN IF method = "adam" THEN mean
       ELSE IF method = "pso" THEN Add(Mul(Q(7, 10), mean), Mul(Q(3, 10), Mul(std, Num(2))))
       ELSE Add(Mul(w, mean), Mul(Sub(Num(1), w), prior))

\* the composite of every entry applyOptimizer(data, method) returns
applyOptimizer(data, method, file) ==
    [idx \in 1..Len(data) |->
        CHOOSE clamped \in {MathMax(Num(0), MathMin(Num(100), value)) :
                               value \in {optimizerValue(vals, method, file) :
                                             vals \in {slice7(entryValues(data[idx], file))}}} : TRUE]

OptimizerValues == {Num(60), Num(80)}

\* lines of 7 values, and lines that are shorter or longer
OptimizerLines ==
    {[i \in 1..7 |-> IF i <= 5 THEN f[i] ELSE Num(80)] : f \in [1..5 -> OptimizerValues]}
    \cup {<<>>, <<Num(80), Num(80), Num(80)>>, [i \in 1..7 |-> Num(60)],
          [i \in 1..8 |-> IF i = 8 THEN Num(0) ELSE Num(100)],
          [i \in 1..7 |-> Num(0)], [i \in 1..7 |-> Num(100)],
          <<Num(0), Num(100), Num(0), Num(100), Num(0), Num(100), Num(0)>>}

OptimizerMethods == {"adam", "pso", "bayesian"}

\* the page after load: applyOptimizer has not been called
InitOptimizer ==
    /\ StoreIdle
    /\ ScorerIdle
    /\ RobustIdle
    /\ RescoreIdle
    /\ AnomalyIdle
    /\ MigrationIdle
    /\ TabsIdle
    /\ iweights = integrationWeights
    /\ storedWeights = "unset"
    /\ ret = NoReturn
    /\ thrown = "none"

\* applyOptimizer([line], method) of one of the two files
ApplyOptimizer ==
    \E line \in OptimizerLines, method \in OptimizerMethods, file \in Files :
        /\ call' = [op |-> "applyOptimizer",
                    arg |-> [data |-> <<line>>, method |-> method, file |-> file]]
        /\ ret' = applyOptimizer(<<line>>, method, file)
        /\ result' = NoResult
        /\ RhythmQuiet

\* applyOptimizer with two entries
ApplyOptimizerPair ==
    \E method \in OptimizerMethods, file \in Files :
        \E data \in {<<[i \in 1..7 |-> Num(80)], [i \in 1..7 |-> Num(60)]>>} :
            /\ call' = [op |-> "applyOptimizer",
                        arg |-> [data |-> data, method |-> method, file |-> file]]
            /\ ret' = applyOptimizer(data, method, file)
            /\ result' = NoResult
            /\ RhythmQuiet

NextOptimizer ==
    \/ ApplyOptimizer
    \/ ApplyOptimizerPair

SpecOptimizer == InitOptimizer /\ [][NextOptimizer]_vars

-----------------------------------------------------------------------------
(***************************************************************************)
(* RhythmMigration (migration-rhythm.js).  The database is kept as its     *)
(* version (0 when it does not exist), the names of its object stores and  *)
(* the records of the stores tasks, goals, productivity_scores and         *)
(* sleep_data.  migrate() runs one awaited step at a time; an IndexedDB    *)
(* request may end in its error event, which is a choice of the            *)
(* environment.  indexedDB.open creates a database that does not exist,    *)
(* with no object store unless an upgradeneeded handler creates one;       *)
(* deleteDatabase waits as long as a connection to the database is open;   *)
(* transaction() and objectStore() throw NotFoundError for a store that    *)
(* the database, or the scope of the transaction, does not have.           *)
(***************************************************************************)

MaxRuns == 2

oldVersion == 1

newVersion == 2

backedUpStores == {"tasks", "goals", "productivity_scores"}

rhythmStores == {"rhythm_data", "sleep_data", "attendance_data"}

\* a task record as task-manager.js stores it, without the rhythm fields
plainTask(id, completed) ==
    [id |-> id, completed |-> completed, time |-> "10:00", completedOnTime |-> "undefined",
     plannedStartTime |-> "undefined", actualStartTime |-> "undefined"]

\* a productivity_scores record without the rhythm component (<<>>)
plainScore(date, v) ==
    [date |-> date, effort |-> Num(v), duration |-> Num(v), quality |-> Num(v), goal |-> Num(v),
     composite |-> Num(v), rhythm |-> <<>>]

\* the databases migrate() may find: none, version 1 with or without records,
\* version 1 without the productivity_scores store, and version 2
InitialDatabases ==
    {noDatabase,
     [noDatabase EXCEPT !.version = 1, !.stores = backedUpStores],
     [noDatabase EXCEPT !.version = 1, !.stores = backedUpStores,
                        !.tasks = {plainTask(1, TRUE)}],
     [noDatabase EXCEPT !.version = 1, !.stores = backedUpStores,
                        !.tasks = {plainTask(1, TRUE), plainTask(2, FALSE)},
                        !.goals = {[id |-> 1]},
                        !.scores = {plainScore("today", 80)}],
     [noDatabase EXCEPT !.version = 1, !.stores = {"tasks", "goals"},
                        !.tasks = {plainTask(1, FALSE)}],
     [noDatabase EXCEPT !.version = 2, !.stores = backedUpStores \cup rhythmStores,
                        !.tasks = {plainTask(1, TRUE)},
                        !.scores = {plainScore("today", 80)}]}

\* the database after indexedDB.open(name) or indexedDB.open(name, version)
\* succeeded without an upgradeneeded handler
opened(db, version) == IF db.version = 0 THEN [db EXCEPT !.version = version] ELSE db

\* the test with the version left out of account
needsMigration_always(currentVersion) == currentVersion >= 0

\* if (currentVersion >= this.newVersion) return 'No migration needed'
needsMigration(currentVersion) == ~(currentVersion >= newVersion)

\* backup.data: the records of every store that exists among the three
backupOf(db) ==
    [version |-> oldVersion,
     stores |-> db.stores \cap backedUpStores,
     tasks |-> db.tasks, goals |-> db.goals, scores |-> db.scores]

\* the task as migrateTasks puts it back
migratedTask(t) ==
    LET onTime == IF t.completedOnTime = "undefined"
                  THEN (IF t.completed THEN "true" ELSE "false") ELSE t.completedOnTime
        planned == IF t.plannedStartTime = "undefined" THEN t.time ELSE t.plannedStartTime
        actual == IF t.actualStartTime \in {"undefined", "null"}
                  THEN (IF t.completed THEN t.time ELSE "null") ELSE t.actualStartTime
    IN [t EXCEPT !.completedOnTime = onTime, !.plannedStartTime = planned,
                 !.actualStartTime = actual]

noSleep == [date |-> "none", sleepTime |-> 0, wakeTime |-> 0]

\* the sleep times generateInitialRhythmData may draw for a day, in minutes
SleepDraws == {[sleepTime |-> 1350, wakeTime |-> 390], [sleepTime |-> 1439, wakeTime |-> 449]}

\* the score record as recalculateAllScores puts it back; sleep is the
\* rhythm_data record of the score's date, noSleep if there is none
rescored(score, sleep) ==
    LET rhythm ==
            IF sleep = noSleep THEN Num(50)
            ELSE MathMax(Num(0), Sub(Num(100), Div(Num(Abs(sleep.sleepTime - 1350)
                                                       + Abs(sleep.wakeTime - 390)), Num(2))))
        composite ==
            Add(Add(Add(Add(Mul(score.effort, Q(20, 100)), Mul(score.duration, Q(20, 100))),
                        Mul(score.quality, Q(25, 100))), Mul(score.goal, Q(20, 100))),
                Mul(rhythm, Q(15, 100)))
    IN [score EXCEPT !.rhythm = rhythm, !.composite = composite]

\* the catch block is entered with the given error
failed(m, error) == [m EXCEPT !.pc = "restoreFromBackup", !.error = error]

\* migrate() returns
returns(m, value) == [m EXCEPT !.pc = "returned", !.returned = value]

MigrationQuiet ==
    UNCHANGED <<weights, scoreHistory, normRun, iweights, storedWeights, thrown, task, goals,
                scoringCore, path, result, call, ret, storeVars, rescoreVars, anomalyVars, tabVars, calls>>

\* the page is loaded with some database and no backup
InitMigration ==
    /\ StoreIdle
    /\ ScorerIdle
    /\ RobustIdle
    /\ RescoreIdle
    /\ AnomalyIdle
    /\ TabsIdle
    /\ iweights = integrationWeights
    /\ storedWeights = "unset"
    /\ ret = NoReturn
    /\ thrown = "none"
    /\ idb \in InitialDatabases
    /\ backupItem = noBackup
    /\ mig = migIdle

\* migrate() is called
MigrateCall ==
    /\ mig.pc \in {"idle", "returned"}
    /\ ~mig.restoring
    /\ mig.runs < MaxRuns
    /\ mig' = [mig EXCEPT !.pc = "getCurrentVersion", !.runs = mig.runs + 1, !.error = "none",
                          !.before = [idb |-> idb, backupItem |-> backupItem]]
    /\ UNCHANGED <<idb, backupItem>>
    /\ MigrationQuiet

\* const currentVersion = await this.getCurrentVersion(), and the test of it
GetCurrentVersion ==
    /\ mig.pc = "getCurrentVersion"
    /\ \E ok \in BOOLEAN :
           \E db \in {IF ok THEN opened(idb, 1) ELSE idb} :
               \E currentVersion \in {IF ok THEN db.version ELSE 0} :
                   /\ idb' = db
                   /\ mig' = IF needsMigration(currentVersion)
                             THEN [mig EXCEPT !.pc = "backupData", !.currentVersion = currentVersion]
                             ELSE returns([mig EXCEPT !.currentVersion = currentVersion],
                                          [success |-> TRUE, message |-> "No migration needed"])
    /\ UNCHANGED backupItem
    /\ MigrationQuiet

\* const backup = await this.backupData(); opening at version 1 a database of
\* a higher version ends in the error event
BackupData ==
    /\ mig.pc = "backupData"
    /\ \E ok \in {o \in BOOLEAN : o => idb.version <= oldVersion} :
           IF ok
           THEN \E db \in {opened(idb, oldVersion)} :
                    /\ idb' = db
                    /\ backupItem' = backupOf(db)
                    /\ mig' = [mig EXCEPT !.pc = "upgradeDatabase"]
           ELSE /\ mig' = failed(mig, "Failed to create backup")
                /\ UNCHANGED <<idb, backupItem>>
    /\ MigrationQuiet

\* await this.upgradeDatabase()
UpgradeDatabase ==
    /\ mig.pc = "upgradeDatabase"
    /\ \E ok \in BOOLEAN :
           IF ok
           THEN /\ idb' = [idb EXCEPT !.version = newVersion, !.stores = @ \cup rhythmStores]
                /\ mig' = [mig EXCEPT !.pc = "migrateTasks", !.db = "open"]
           ELSE /\ mig' = failed(mig, "Failed to upgrade database")
                /\ UNCHANGED idb
    /\ UNCHANGED backupItem
    /\ MigrationQuiet

\* await this.migrateTasks()
MigrateTasks ==
    /\ mig.pc = "migrateTasks"
    /\ \E ok \in {o \in BOOLEAN : o => "tasks" \in idb.stores} :
           IF ok
           THEN /\ idb' = [idb EXCEPT !.tasks = {migratedTask(t) : t \in idb.tasks}]
                /\ mig' = [mig EXCEPT !.pc = "generateInitialRhythmData"]
           ELSE /\ mig' = failed(mig, IF "tasks" \in idb.stores THEN "request error"
                                      ELSE "NotFoundError")
                /\ UNCHANGED idb
    /\ UNCHANGED backupItem
    /\ MigrationQuiet

\* await this.generateInitialRhythmData(): the sleep record of today stands for
\* the seven it writes
GenerateInitialRhythmData ==
    /\ mig.pc = "generateInitialRhythmData"
    /\ \E ok \in BOOLEAN :
           IF ok
           THEN \E draw \in SleepDraws :
                    /\ idb' = [idb EXCEPT !.sleep = {[date |-> "today", sleepTime |-> draw.sleepTime,
                                                      wakeTime |-> draw.wakeTime]}]
                    /\ mig' = [mig EXCEPT !.pc = "recalculateAllScores"]
           ELSE /\ mig' = failed(mig, "request error")
                /\ UNCHANGED idb
    /\ UNCHANGED backupItem
    /\ MigrationQuiet

\* await this.recalculateAllScores()
RecalculateAllScores ==
    /\ mig.pc = "recalculateAllScores"
    /\ \E ok \in {o \in BOOLEAN : o => {"productivity_scores", "tasks"} \subseteq idb.stores} :
           IF ok
           THEN /\ idb' = [idb EXCEPT !.scores =
                              {rescored(s, IF \E r \in idb.sleep : r.date = s.date
                                           THEN CHOOSE r \in idb.sleep : r.date = s.date
                                           ELSE noSleep) : s \in idb.scores}]
                /\ mig' = [mig EXCEPT !.pc = "verifyMigration"]
           ELSE /\ mig' = failed(mig, IF {"productivity_scores", "tasks"} \subseteq idb.stores
                                      THEN "request error" ELSE "NotFoundError")
                /\ UNCHANGED idb
    /\ UNCHANGED backupItem
    /\ MigrationQuiet

\* const verified = await this.verifyMigration(): it either returns false, and
\* migrate() throws, or asks the transaction over the three rhythm stores for
\* the store productivity_scores, and objectStore() throws
VerifyMigration ==
    /\ mig.pc = "verifyMigration"
    /\ \E ok \in BOOLEAN :
           mig' = failed(mig, IF ok /\ idb.version = newVersion THEN "NotFoundError"
                              ELSE "Migration verification failed")
    /\ UNCHANGED <<idb, backupItem>>
    /\ MigrationQuiet

\* await this.restoreFromBackup() and return { success: false, ... }.  With a
\* backup, the database is deleted and indexedDB.open(name, backup.version) is
\* requested; the function returns without waiting for that request
RestoreFromBackup ==
    /\ mig.pc = "restoreFromBackup"
    /\ IF backupItem = noBackup
       THEN /\ mig' = returns(mig, [success |-> FALSE, message |-> mig.error])
            /\ UNCHANGED idb
       ELSE IF mig.db = "open"
       THEN /\ mig' = [mig EXCEPT !.pc = "deleteDatabase"]
            /\ UNCHANGED idb
       ELSE \E ok \in BOOLEAN :
                IF ok
                THEN /\ idb' = noDatabase
                     /\ mig' = returns([mig EXCEPT !.restoring = TRUE],
                                       [success |-> FALSE, message |-> mig.error])
                ELSE /\ mig' = returns(mig, [success |-> FALSE, message |-> mig.error])
                     /\ UNCHANGED idb
    /\ UNCHANGED backupItem
    /\ MigrationQuiet

\* request.onsuccess of restoreFromBackup: the database was created anew with
\* no object store, so db.transaction([storeName]) throws for the first store
\* of the backup and nothing is put
RestoreOpenSuccess ==
    /\ mig.restoring
    /\ idb' = opened(idb, backupItem.version)
    /\ mig' = [mig EXCEPT !.restoring = FALSE]
    /\ UNCHANGED backupItem
    /\ MigrationQuiet

NextMigration ==
    \/ MigrateCall
    \/ GetCurrentVersion
    \/ BackupData
    \/ UpgradeDatabase
    \/ MigrateTasks
    \/ GenerateInitialRhythmData
    \/ RecalculateAllScores
    \/ VerifyMigration
    \/ RestoreFromBackup
    \/ RestoreOpenSuccess

SpecMigration == InitMigration /\ [][NextMigration]_vars

-----------------------------------------------------------------------------
(***************************************************************************)
(* Task.calculateRhythmScore of the enhanced task manager                  *)
(* (migration-rhythm.js).  A time string is kept as the tuple of the       *)
(* numbers between its colons: <<>> is the empty string or null, <<9>> is  *)
(* "9", <<9, 15>> is "09:15".                                              *)
(***************************************************************************)

\* Task.timeToMinutes(timeStr): 0 for a falsy string, else hours * 60 +
\* minutes of timeStr.split(':').map(Number), NaN when minutes is undefined
Task_timeToMinutes(timeStr) ==
    IF timeStr = <<>> THEN Num(0)
    ELSE IF Len(timeStr) < 2 THEN NaN
    ELSE Add(Mul(Num(timeStr[1]), Num(60)), Num(timeStr[2]))

\* the score with the second start-time test not under the else of the first
Task_calculateRhythmScore_noElse(this) ==
    LET onTime == IF this.completedOnTime THEN 20 ELSE 0
        timeDiff == AbsQ(Sub(Task_timeToMinutes(this.actualStartTime),
                             Task_timeToMinutes(this.plannedStartTime)))
        consistent ==
            IF this.actualStartTime # <<>> /\ this.plannedStartTime # <<>>
            THEN (IF Lt(timeDiff, Num(15)) THEN 20 ELSE 0)
                 + (IF Lt(timeDiff, Num(30)) THEN 10 ELSE 0)
            ELSE 0
        recurring == IF this.recurring # "null" /\ this.completed THEN 10 ELSE 0
    IN MathMin(Num(100), MathMax(Num(0), Num(50 + onTime + consistent + recurring)))

\* Task.calculateRhythmScore()
Task_calculateRhythmScore(this) ==
    LET onTime == IF this.completedOnTime THEN 20 ELSE 0
        timeDiff == AbsQ(Sub(Task_timeToMinutes(this.actualStartTime),
                             Task_timeToMinutes(this.plannedStartTime)))
        consistent ==
            IF this.actualStartTime # <<>> /\ this.plannedStartTime # <<>>
            THEN (IF Lt(timeDiff, Num(15)) THEN 20
                  ELSE IF Lt(timeDiff, Num(30)) THEN 10 ELSE 0)
            ELSE 0
        recurring == IF this.recurring # "null" /\ this.completed THEN 10 ELSE 0
    IN MathMin(Num(100), MathMax(Num(0), Num(50 + onTime + consistent + recurring)))

ActualStartTimes ==
    {<<>>, <<9>>, <<9, 0>>, <<9, 14>>, <<9, 15>>, <<9, 29>>, <<9, 30>>, <<8, 45>>, <<0, 5>>}

PlannedStartTimes == {<<>>, <<9>>, <<9, 0>>, <<23, 55>>}

InitTask == InitOptimizer

\* task.calculateRhythmScore() of a task of the enhanced task manager
TaskCalculateRhythmScore ==
    \E completedOnTime \in BOOLEAN, completed \in BOOLEAN, recurring \in {"null", "daily"},
       actualStartTime \in ActualStartTimes, plannedStartTime \in PlannedStartTimes :
        \E this \in {[completed |-> completed, completedOnTime |-> completedOnTime,
                      plannedStartTime |-> plannedStartTime,
                      actualStartTime |-> actualStartTime, recurring |-> recurring]} :
            /\ call' = [op |-> "Task.calculateRhythmScore", arg |-> this]
            /\ ret' = <<Task_calculateRhythmScore(this)>>
            /\ result' = NoResult
            /\ RhythmQuiet

NextTask == TaskCalculateRhythmScore

SpecTask == InitTask /\ [][NextTask]_vars

-----------------------------------------------------------------------------
(***************************************************************************)
(* ProductivityIntegration.calculateTrend (integration.js): the trend of   *)
(* the recent intensity values by the slope of their regression line.      *)
(***************************************************************************)

\* the regression slope with the two sums of the numerator exchanged
trendSlope_swapped(scores) ==
    LET n == Len(scores)
        sumX == Num(SumInts([i \in 1..n |-> i - 1], 1, n))
        sumY == SumOver(scores, 1, n)
        sumXY == SumOver([i \in 1..n |-> Mul(Num(i - 1), scores[i])], 1, n)
        sumX2 == Num(SumInts([i \in 1..n |-> (i - 1) * (i - 1)], 1, n))
    IN Div(Sub(Mul(sumX, sumY), Mul(Num(n), sumXY)),
           Sub(Mul(Num(n), sumX2), Mul(sumX, sumX)))

\* slope = (n * sumXY - sumX * sumY) / (n * sumX2 - sumX * sumX)
trendSlope(scores) ==
    LET n == Len(scores)
        sumX == Num(SumInts([i \in 1..n |-> i - 1], 1, n))
        sumY == SumOver(scores, 1, n)
        sumXY == SumOver([i \in 1..n |-> Mul(Num(i - 1), scores[i])], 1, n)
        sumX2 == Num(SumInts([i \in 1..n |-> (i - 1) * (i - 1)], 1, n))
    IN Div(Sub(Mul(Num(n), sumXY), Mul(sumX, sumY)),
           Sub(Mul(Num(n), sumX2), Mul(sumX, sumX)))

\* calculateTrend(scores) of integration.js
Integration_calculateTrend(scores) ==
    IF Len(scores) < 2 THEN "stable"
    ELSE CHOOSE trend \in {IF Lt(AbsQ(slope), Q(1, 2)) THEN "stable"
                           ELSE IF Lt(Num(0), slope) THEN "improving" ELSE "declining"
                           : slope \in {trendSlope(scores)}} : TRUE

MaxScores == 3

\* values[7] of a data line: a number, or NaN from a line computed of NaN
TrendValues == {Num(0), Q(1, 2), Num(1), Num(3), NaN}

TrendInputs == UNION {[1..n -> TrendValues] : n \in 0..MaxScores}

InitTrend == InitOptimizer

\* this.calculateTrend(recentScores)
CalculateTrend ==
    \E scores \in TrendInputs :
        /\ call' = [op |-> "calculateTrend", arg |-> [scores |-> scores]]
        /\ ret' = <<Integration_calculateTrend(scores)>>
        /\ result' = NoResult
        /\ RhythmQuiet

NextTrend == CalculateTrend

SpecTrend == InitTrend /\ [][NextTrend]_vars

-----------------------------------------------------------------------------
(***************************************************************************)
(* One RobustProductivityScoring object under a sequence of its scoring    *)
(* calls: calculateScore, updateHistory, optimizeWeights and               *)
(* calculateWithMissingData (robust-productivity-scoring.js).              *)
(***************************************************************************)

\* a component that the partialComponents argument does not have
Missing == <<>>

\* this.scoreHistory.reduce((a, b) => a + b, 0) / this.scoreHistory.length
historyMean(h) == Div(SumOver(h, 1, Len(h)), Num(Len(h)))

\* the components as calculateScore reads them: undefined || 0 is 0, as NaN || 0
readable(components) ==
    [k \in RKeys |-> IF components[k] = Missing THEN NaN ELSE components[k]]

\* tempWeights: the weight of key halved, then every weight divided by the sum
halvedWeights(w, key) ==
    LET tempWeights == [w EXCEPT ![key] = Mul(w[key], Q(1, 2))]
        sum == SumSeq(tempWeights, RKeySeq, 1)
    IN [k \in RKeys |-> Div(tempWeights[k], sum)]

RECURSIVE imputeFrom(_, _, _, _, _)
\* the forEach over the keys from the i-th on: a missing component is imputed
\* and calculateScore runs under the temporary weights; the callback's return
\* value is dropped by forEach.  Gives the components and the history after it.
imputeFrom(w, h, components, method, i) ==
    IF i > Len(RKeySeq) THEN [components |-> components, history |-> h]
    ELSE LET key == RKeySeq[i]
         IN IF components[key] # Missing THEN imputeFrom(w, h, components, method, i + 1)
            ELSE LET value == IF method = "historical" /\ Len(h) > 0
                              THEN historyMean(h) ELSE Num(50)
                     imputed == [components EXCEPT ![key] = value]
                     pushed == updateHistory(h, weightedSum(halvedWeights(w, key),
                                                            readable(imputed)))
                 IN imputeFrom(w, pushed, imputed, method, i + 1)

\* calculateWithMissingData(partialComponents, imputationMethod): the score
\* returned and the history after the call; this.weights is as before
calculateWithMissingData(w, h, partialComponents, method) ==
    LET after == imputeFrom(w, h, partialComponents, method, 1)
    IN [score |-> calculateScore(w, readable(after.components)),
        history |-> updateHistory(after.history, weightedSum(w, readable(after.components)))]

\* most scoring calls on the object
MaxCalls == 3

RobustScoreInputs ==
    {[effort |-> Num(80), duration |-> Num(60), quality |-> Num(70), goals |-> Num(50),
      rhythm |-> Num(40)],
     [effort |-> Num(100), duration |-> Num(100), quality |-> Num(100), goals |-> Num(100),
      rhythm |-> Num(100)]}

PartialInputs ==
    {[effort |-> Missing, duration |-> Num(100), quality |-> Num(100), goals |-> Num(100),
      rhythm |-> Num(100)],
     [effort |-> Num(80), duration |-> Num(60), quality |-> Num(70), goals |-> Missing,
      rhythm |-> Num(40)],
     [effort |-> Num(80), duration |-> Missing, quality |-> Num(70), goals |-> Missing,
      rhythm |-> Num(40)],
     [effort |-> Num(80), duration |-> Num(60), quality |-> Num(70), goals |-> Num(50),
      rhythm |-> Num(40)]}

RobustHistoryInputs ==
    {<<>>, <<DataRecord(Num(80), Num(60), Num(70), Num(50), Num(40), FALSE, 0)>>}

\* the histories on which the historical mean is tried: those of whole
\* numbers, which keeps every score within 32 bits
Whole(h) == \A i \in 1..Len(h) : h[i][2] = 1

RobustQuiet ==
    UNCHANGED <<normRun, iweights, storedWeights, thrown, scorerVars, storeVars, rescoreVars,
                anomalyVars, migrationVars, tabVars>>

InitRobust == InitOptimizer

\* scorer.calculateScore(components)
RobustCalculateScore ==
    /\ calls < MaxCalls
    /\ \E components \in RobustScoreInputs :
           /\ call' = [op |-> "calculateScore", arg |-> [components |-> components]]
           /\ ret' = calculateScore(weights, components)
           /\ scoreHistory' = updateHistory(scoreHistory, weightedSum(weights, components))
    /\ calls' = calls + 1
    /\ UNCHANGED weights
    /\ RobustQuiet

\* scorer.updateHistory(score)
RobustUpdateHistory ==
    /\ calls < MaxCalls
    /\ \E score \in {Num(10), Num(90)} :
           /\ call' = [op |-> "updateHistory", arg |-> [score |-> score]]
           /\ scoreHistory' = updateHistory(scoreHistory, score)
    /\ ret' = NoReturn
    /\ calls' = calls + 1
    /\ UNCHANGED weights
    /\ RobustQuiet

\* scorer.optimizeWeights(historicalData, externalOutcome)
RobustOptimizeWeights ==
    /\ calls < MaxCalls
    /\ \E data \in RobustHistoryInputs, externalOutcome \in BOOLEAN :
           /\ call' = [op |-> "optimizeWeights",
                       arg |-> [data |-> data, externalOutcome |-> externalOutcome]]
           /\ weights' = optimizeWeights(weights, data, externalOutcome)
           /\ scoreHistory' = optimizeHistory(scoreHistory, data)
    /\ ret' = NoReturn
    /\ calls' = calls + 1
    /\ RobustQuiet

\* scorer.calculateWithMissingData(partialComponents, imputationMethod)
CalculateWithMissingData ==
    /\ calls < MaxCalls
    /\ \E partialComponents \in PartialInputs,
          method \in {m \in {"historical", "default"} : m = "historical" => Whole(scoreHistory)} :
           \E done \in {calculateWithMissingData(weights, scoreHistory, partialComponents,
                                                 method)} :
               /\ call' = [op |-> "calculateWithMissingData",
                           arg |-> [components |-> partialComponents, method |-> method,
                                    weights |-> weights, history |-> scoreHistory]]
               /\ ret' = done.score
               /\ scoreHistory' = done.history
    /\ calls' = calls + 1
    /\ UNCHANGED weights
    /\ RobustQuiet

NextRobust ==
    \/ RobustCalculateScore
    \/ RobustUpdateHistory
    \/ RobustOptimizeWeights
    \/ CalculateWithMissingData

SpecRobust == InitRobust /\ [][NextRobust]_vars

-----------------------------------------------------------------------------
(***************************************************************************)
(* Tabs of one origin running integration.js.  Every tab has the storage   *)
(* listener of initializeIntegration: a storage event for the key          *)
(* productivityVisualizationData starts updateVisualization(), which       *)
(* awaits exportForVisualization(), which writes the key.  The browser     *)
(* sends a storage event to every other tab when setItem changes the       *)
(* value.  The value holds metadata.generated, the time of the export in   *)
(* milliseconds; the data exported is the same in every tab, so the value  *)
(* written differs from the stored one exactly when the clock has moved    *)
(* on since the stored one was generated.  generated is kept modulo 2.     *)
(* The 30-second timer of the visualization page is left out.              *)
(***************************************************************************)

NumTabs == 3

\* most storage events queued in a tab, and most exports running in it
MaxEvents == 2

Tabs == 1..NumTabs

\* the tabs after tab t has set the item to a value that differs from the
\* stored one: every other tab is sent a storage event
notified(ts, t) == [u \in Tabs |-> IF u = t THEN ts[u] ELSE [ts[u] EXCEPT !.events = @ + 1]]

\* localStorage.setItem(key, value) in tab t with a value generated now;
\* later tells whether the clock has moved on since the stored value
setItem(item, ts, t, later) ==
    IF item.set /\ ~later
    THEN [item |-> item, tabs |-> ts]
    ELSE [item |-> [set |-> TRUE, generated |-> (item.generated + 1) % 2],
          tabs |-> notified(ts, t)]

TabsQuiet ==
    UNCHANGED <<weights, scoreHistory, calls, normRun, iweights, storedWeights, thrown,
                scorerVars, call, ret, storeVars, rescoreVars, anomalyVars, migrationVars>>

InitTabs ==
    /\ StoreIdle
    /\ ScorerIdle
    /\ RobustIdle
    /\ RescoreIdle
    /\ AnomalyIdle
    /\ MigrationIdle
    /\ iweights = integrationWeights
    /\ storedWeights = "unset"
    /\ ret = NoReturn
    /\ thrown = "none"
    /\ vizItem = noItem
    /\ tabs = [t \in Tabs |-> [events |-> 0, exports |-> 0]]

\* no storage event is queued and no export is running in any tab
NoExportPending == \A t \in Tabs : tabs[t].events = 0 /\ tabs[t].exports = 0

\* the single write: a tab exports while nothing is stored and nothing pending
FirstExportIn(t) ==
    /\ ~vizItem.set
    /\ NoExportPending
    /\ \E done \in {setItem(vizItem, tabs, t, TRUE)} :
           /\ vizItem' = done.item
           /\ tabs' = done.tabs
    /\ TabsQuiet

FirstExport == \E t \in Tabs : FirstExportIn(t)

\* the storage listener of tab t runs: updater.updateVisualization() starts
\* and awaits exportForVisualization()
StorageEventIn(t) ==
    /\ tabs[t].events > 0
    /\ tabs[t].exports < MaxEvents
    /\ tabs' = [tabs EXCEPT ![t] = [events |-> @.events - 1, exports |-> @.exports + 1]]
    /\ UNCHANGED vizItem
    /\ TabsQuiet

StorageEvent == \E t \in Tabs : StorageEventIn(t)

\* exportForVisualization() of tab t has its data and sets the item
ExportForVisualizationIn(t) ==
    /\ tabs[t].exports > 0
    /\ \E later \in BOOLEAN :
           /\ later => \A u \in Tabs \ {t} : tabs[u].events < MaxEvents
           /\ \E done \in {setItem(vizItem,
                                   [tabs EXCEPT ![t] = [@ EXCEPT !.exports = @ - 1]],
                                   t, later)} :
                  /\ vizItem' = done.item
                  /\ tabs' = done.tabs
    /\ TabsQuiet

ExportForVisualization == \E t \in Tabs : ExportForVisualizationIn(t)

NextTabs ==
    \/ FirstExport
    \/ StorageEvent
    \/ ExportForVisualization

\* every listener that is queued runs, and every export that runs finishes
SpecTabs ==
    /\ InitTabs
    /\ [][NextTabs]_vars
    /\ \A t \in Tabs : WF_vars(StorageEventIn(t)) /\ WF_vars(ExportForVisualizationIn(t))

-----------------------------------------------------------------------------
(***************************************************************************)
(* RhythmAnalyzer.circularDistance as calculateSleepConsistency calls it   *)
(* (rhythm-analyzer.js): on the mean angle that circularStatistics gives   *)
(* for recorded clock times, and the angle timeToRadians gives for the     *)
(* ideal time.                                                             *)
(***************************************************************************)

\* clock times around the day, as <<hours, minutes>>
CircularTimes ==
    {<<h, 0>> : h \in {0, 3, 9, 12, 15, 18, 21}}
    \cup {<<6, 30>>, <<22, 30>>, <<23, 59>>, <<0, 1>>, <<13, 30>>}

InitCircular == InitOptimizer

\* this.circularDistance(stats.mean, this.timeToRadians(ideal)) where stats is
\* circularStatistics of the records' times, all at the same time of day
CircularDistance ==
    \E time \in CircularTimes, ideal \in CircularTimes, n \in 1..2 :
        \E stats \in {circularStatistics([i \in 1..n |-> timeToRadians(timeToMinutes(time))])} :
            /\ call' = [op |-> "circularDistance",
                        arg |-> [time |-> time, ideal |-> ideal, n |-> n, mean |-> stats.mean]]
            /\ ret' = circularDistance(stats.mean, timeToRadians(timeToMinutes(ideal)))
            /\ result' = NoResult
            /\ RhythmQuiet

NextCircular == CircularDistance

SpecCircular == InitCircular /\ [][NextCircular]_vars

-----------------------------------------------------------------------------
(***************************************************************************)
(* The Pareto helpers of the radar page (Project/radar.js).  A profile is  *)
(* [code, values], values giving a number for every axis; the numbers are  *)
(* kept in tenths.                                                         *)
(***************************************************************************)

\* const triad
triad == <<"Exploration", "Exploitation", "Security">>

\* dominance with the test for a strictly larger axis left out
dominates_noStrict(a, b, axes) ==
    LET better == \A i \in 1..Len(axes) : ~(a[axes[i]] < b[axes[i]])
    IN better

\* dominates(a, b, axes): no axis on which a is smaller, and one on which it is larger
dominates(a, b, axes) ==
    LET better == \A i \in 1..Len(axes) : ~(a[axes[i]] < b[axes[i]])
        strict == \E i \in 1..Len(axes) : a[axes[i]] > b[axes[i]]
    IN better /\ strict

RECURSIVE filterFrom(_, _, _)
\* list.filter(p => !list.some(q => dominates(q.values, p.values, axes))) from
\* the i-th profile on
filterFrom(list, axes, i) ==
    IF i > Len(list) THEN <<>>
    ELSE LET some == \E j \in 1..Len(list) : dominates(list[j].values, list[i].values, axes)
         IN (IF some THEN <<>> ELSE <<list[i]>>) \o filterFrom(list, axes, i + 1)

\* paretoFront(list, axes)
paretoFront(list, axes) == filterFrom(list, axes, 1)

\* most profiles in a list
MaxProfiles == 3

ProfileValues == [{triad[i] : i \in 1..Len(triad)} -> {3, 9}]

\* the lists of profiles, each profile with its position as code
ProfileLists ==
    UNION {{[i \in 1..n |-> [code |-> i, values |-> f[i]]] : f \in [1..n -> ProfileValues]}
           : n \in 0..MaxProfiles}

InitPareto == InitOptimizer

\* paretoFront(list, axes) as the two Pareto buttons call it
ParetoFront ==
    /\ call.op = "new"
    /\ \E list \in ProfileLists :
           /\ call' = [op |-> "paretoFront", arg |-> [list |-> list, axes |-> triad]]
           /\ ret' = paretoFront(list, triad)
    /\ result' = NoResult
    /\ RhythmQuiet

NextPareto == ParetoFront

SpecPareto == InitPareto /\ [][NextPareto]_vars

-----------------------------------------------------------------------------
(* C1: every component score (effort, duration, quality, goal) returned by *)
(* the per-task scorers of task-manager.js and integration-enhanced.js is  *)
(* a finite number in [0,100], whatever the task's priority and duration.  *)
C1_ComponentsInRange ==
    path \in {"task-manager", "enhanced"} =>
        /\ InRange100(result.effort)
        /\ InRange100(result.duration)
        /\ InRange100(result.quality)
        /\ InRange100(result.goal)

-----------------------------------------------------------------------------
\* |x - y| <= 1/10000: looser than any floating-point tolerance
Close(x, y) == IsFinite(x) /\ IsFinite(y) /\ Le(AbsQ(Sub(x, y)), Q(1, 10000))

AllPositive(w) == \A k \in DOMAIN w : Lt(Num(0), w[k])
AllNonPositive(w) == DOMAIN w # {} /\ \A k \in DOMAIN w : Le(w[k], Num(0))

(***************************************************************************)
(* C2: after saveTask(task) has succeeded for a task with date d and every *)
(* callback it started has run, the score store holds a record for d that  *)
(* was recomputed from all tasks then stored for d: its taskCount is the   *)
(* number of stored tasks whose date is d.                                 *)
(***************************************************************************)
C2_SaveRecomputesDay ==
    (queue = <<>> /\ call.op = "saveTask") =>
        \E r \in scoresOn(call.date) : r.taskCount = Cardinality(tasksOn(call.date))

(***************************************************************************)
(* C3: after deleteTask(id) has removed a task with date d and every       *)
(* callback has run, the score record for d reflects only the tasks that   *)
(* remain: no record with a positive taskCount if none remain, otherwise   *)
(* the record recomputed from the remaining tasks.                         *)
(***************************************************************************)
C3_DeleteRecomputesDay ==
    (queue = <<>> /\ call.op = "deleteTask" /\ call.found) =>
        IF tasksOn(call.date) = {}
        THEN \A r \in scoresOn(call.date) : r.taskCount = 0
        ELSE \E r \in scoresOn(call.date) :
                 r = productivityData(call.date, tasksOn(call.date), goals)

\* the task names a goal that the goal list does not hold
Dangling == task.goalId # 0 /\ ~(\E g \in goals : g.id = task.goalId)

(***************************************************************************)
(* C4: a task whose goalId names no existing goal gets the goal component  *)
(* of a task without goalId, G = 30, in every scoring path (task-manager,  *)
(* integration-enhanced, integration with or without the scoring core),    *)
(* and scoring it raises no error.                                         *)
(***************************************************************************)
C4_DanglingGoalScores30 ==
    (path # "none" /\ Dangling) => (result.goal = Num(30) /\ thrown = "none")

(* C5: for every weight vector with five positive entries, after           *)
(* normalizeWeights the weights sum to 1 and every weight is at least the  *)
(* floor 0.05.                                                             *)
C5_NormalizedSumAndFloor ==
    (call.op = "normalizeWeights" /\ AllPositive(call.arg)) =>
        /\ Close(SumValues(weights), Num(1))
        /\ \A k \in RKeys : Le(minWeight, weights[k])

(* C6: normalizeWeights is idempotent: applied to a vector that is already *)
(* its own output it leaves every weight unchanged.                        *)
C6_NormalizeIdempotent ==
    (call.op = "normalizeWeights" /\ normRun >= 2) =>
        \A k \in RKeys : Close(weights[k], call.arg[k])

ValidWeights(w) ==
    /\ \A k \in DOMAIN w : Le(minWeight, w[k]) /\ Le(w[k], Num(1))
    /\ Close(SumMap(w, DOMAIN w), Num(1))

(* C7: after updateWeights, bayesianUpdateWeights or optimizeWeights every *)
(* weight of the mutated vector lies in [0.05, 1] and the weights sum to 1.*)
C7_WeightsValidAfterMutation ==
    /\ call.op = "updateWeights" => ValidWeights(iweights)
    /\ call.op \in {"bayesianUpdateWeights", "optimizeWeights"} => ValidWeights(weights)

(* C8: normalizing or installing a weight vector whose entries are all     *)
(* <= 0 fails with an InvalidConfiguration error.                          *)
C8_InvalidConfigurationRaised ==
    (/\ call.op \in {"normalizeWeights", "updateWeights", "PriosScoring.normalizeWeights"}
     /\ AllNonPositive(call.arg)) =>
        thrown = "InvalidConfiguration"

CompositeOps ==
    {"calculateScore", "computeComposite", "calculateCompositeFromComponents",
     "calculateDailyProductivity"}

\* the components a composite scorer reads from the vector c
UsedComponents(op) == IF op = "calculateScore" THEN IKeys ELSE PKeys

AllEqual(c, ks, v) == \A k \in ks : c[k] = v

(* C9: if all components equal the same v in [0,100], the composite equals *)
(* v whatever weight map is passed, also one that omits a component key or *)
(* carries an extra key.                                                   *)
C9_EqualComponentsGiveV ==
    call.op \in {"computeComposite", "calculateScore"} =>
        \A v \in {0, 37, 50, 100} :
            AllEqual(call.arg, UsedComponents(call.op), Num(v)) => ret = Num(v)

NonNegativeSumOne(w) ==
    /\ \A k \in DOMAIN w : Le(Num(0), w[k])
    /\ SumMap(w, DOMAIN w) = Num(1)

(* C10: whenever all components are in [0,100] and the weights are         *)
(* non-negative and sum to 1, the composite score is in [0,100].           *)
C10_CompositeInRange ==
    (/\ call.op \in CompositeOps
     /\ \A k \in UsedComponents(call.op) : InRange100(call.arg[k])
     /\ NonNegativeSumOne(call.w)) =>
        InRange100(ret)

\* a day of in-range components scored under weights summing to 1
C10_Witness ==
    /\ call.op = "calculateDailyProductivity"
    /\ call.arg.effort = Num(0) /\ call.arg.duration = Num(100)
    /\ NonNegativeSumOne(call.w)
    /\ ret = Num(50)

(***************************************************************************)
(* C11: a scorer's result depends only on its arguments and the weights:   *)
(* calculateScore or calculateRhythm called again with the same arguments  *)
(* under the same weights returns the value its first call returned,       *)
(* whatever scoring calls were made in between.                            *)
(***************************************************************************)
C11_RescoreSameValue ==
    \A r \in firstReturn :
        (call.op = r.op /\ (r.op = "calculateRhythm" \/ call.arg = r.arg)) => ret = r.value

(* C12: whenever computeRhythmScore reports a sub-score that is exactly 0,  *)
(* the composite it returns is 0.                                          *)
C12_ZeroSubScoreZeroComposite ==
    (call.op = "computeRhythmScore"
        /\ \E k \in DOMAIN result.components : result.components[k] = Num(0))
    => result.composite = Num(0)

(* C13: computeRhythmScore returns a composite in [0,100] and each of the   *)
(* four reported components in [0,100], for every data set.                *)
C13_RhythmScoresInRange ==
    call.op = "computeRhythmScore"
    => /\ InRange100(result.composite)
       /\ \A k \in DOMAIN result.components : InRange100(result.components[k])

(* C14: calculateCircadianAlignment takes 0.5 times the fraction of         *)
(* late-night activity off the score, so a data set whose activity lies    *)
(* entirely in hours 23, 0, 1 and 2 scores at most 0.3.                    *)
C14_LateNightPenalised ==
    (call.op = "calculateCircadianAlignment" /\ Len(call.arg) > 0
        /\ \A i \in 1..Len(call.arg) : call.arg[i] \in {23, 0, 1, 2})
    => Le(ret, Q(3, 10))

\* the number of on-time records of the attendance list a
onTimeCount(a) == Cardinality({i \in 1..Len(a) : a[i]})

\* the longest unbroken on-time run of the attendance list a
longestRun(a) ==
    IF streakEnds(a) = {} THEN 0
    ELSE LET runs == {streakAt(a, i) : i \in streakEnds(a)}
         IN CHOOSE s \in runs : \A t \in runs : t <= s

(* C15: of two attendance lists of the same length with the same number of  *)
(* on-time records, the one with fewer and longer unbroken runs never has  *)
(* the smaller streak bonus.                                               *)
C15_LongerRunsNeverLowerBonus ==
    call.op = "calculateAttendanceConsistency"
    => \A b \in ShortAttendance :
          (/\ Len(b) = Len(call.arg)
           /\ onTimeCount(b) = onTimeCount(call.arg)
           /\ Cardinality(streakEnds(call.arg)) < Cardinality(streakEnds(b))
           /\ longestRun(call.arg) > longestRun(b))
          => Le(streakBonus(b), streakBonus(call.arg))

(* C16: each of the four sub-score functions returns the neutral 0.5 for    *)
(* an empty list and for a list of exactly one record.                     *)
C16_NeutralBelowTwoPoints ==
    (call.op \in {"calculateSleepConsistency", "calculateAttendanceConsistency",
                  "calculateTaskCompletionConsistency", "calculateCircadianAlignment"}
        /\ Len(call.arg) < 2)
    => ret = Q(1, 2)

(* C17: circularStatistics on 23:30 and 00:30 gives a mean within 0.01 rad  *)
(* of the angle of 00:00, and on 22:00, 22:30, 23:00, 23:30, 00:00 a mean  *)
(* within 0.1 rad of timeToRadians of 23:00.                               *)
C17_MeanAcrossMidnight ==
    call.op = "circularStatistics"
    => /\ call.arg = <<<<23, 30>>, <<0, 30>>>>
          => Le(AbsQ(Sub(result.mean, timeToRadians(timeToMinutes(<<0, 0>>)))), Q(1, 100))
       /\ call.arg = <<<<22, 0>>, <<22, 30>>, <<23, 0>>, <<23, 30>>, <<0, 0>>>>
          => Le(AbsQ(Sub(result.mean, timeToRadians(timeToMinutes(<<23, 0>>)))), Q(1, 10))

\* all values of the series are equal
IsConstant(series) == \A i, j \in 1..Len(series) : series[i] = series[j]

(* C18: for a constant series of any length cusumEwmaAnomalies flags no     *)
(* index, neither while its loop runs nor in the idxs it returns.          *)
C18_ConstantSeriesNoFlags ==
    (call.op = "cusumEwmaAnomalies" /\ IsConstant(call.arg.series))
    => /\ cusum.idxs = <<>>
       /\ result # NoResult => result.idxs = <<>>

\* the threshold h of a series: 5 times the mean absolute deviation from the
\* median, or 10 when that deviation is 0
thresholdOf(series) ==
    LET n == Len(series)
        med == sortedAt(series, n \div 2)
        mad == Div(sumRange([i \in 1..n |-> AbsQ(deviation(series[i], med))], 1, n), Num(n))
    IN IF Lt(Num(0), mad) THEN Mul(Num(5), mad) ELSE Num(10)

(* C19: in every pass of the loop the index t is flagged exactly when the   *)
(* positive or the negative accumulator at t, built on the accumulators    *)
(* stored for t-1, exceeds h; at a flagged index both stored accumulators  *)
(* are 0, otherwise they are the accumulated values.                       *)
C19_FlagIffExceedsAndResets ==
    [][(cusum.pc = "loop" /\ cusum'.pc = "loop" /\ cusum'.t = cusum.t + 1)
       => LET t == cusum.t
              med == sortedAt(cusum.series, Len(cusum.series) \div 2)
              dev == deviation(cusum'.ewma[t + 1], med)
              accPos == MathMax(Num(0), Add(cusum.pos[t], Sub(dev, Q(1, 2))))
              accNeg == MathMax(Num(0), Sub(cusum.neg[t], Add(dev, Q(1, 2))))
              exceeds == \/ Lt(thresholdOf(cusum.series), accPos)
                         \/ Lt(thresholdOf(cusum.series), accNeg)
          IN IF exceeds
             THEN /\ cusum'.idxs = Append(cusum.idxs, t)
                  /\ cusum'.pos[t + 1] = Num(0)
                  /\ cusum'.neg[t + 1] = Num(0)
             ELSE /\ cusum'.idxs = cusum.idxs
                  /\ cusum'.pos[t + 1] = accPos
                  /\ cusum'.neg[t + 1] = accNeg]_vars

\* the loop has made a pass after a flagged index, and has flagged again
C19_Witness ==
    /\ cusum.pc = "loop"
    /\ Len(cusum.idxs) >= 2
    /\ cusum.idxs[2] > cusum.idxs[1] + 1

(* C20: with method 'isolation' computeAnomalies returns exactly the        *)
(* entries whose mean of the first 7 values lies outside                   *)
(* [Q1 - 1.5 IQR, Q3 + 1.5 IQR] with IQR = Q3 - Q1, Q1 = Q3 included.       *)
C20_IsolationFlagsOutsideFences ==
    (/\ call.op = "computeAnomalies"
     /\ call.arg.method = "isolation"
     /\ Len(call.arg.dataset) > 0
     /\ \A i \in 1..Len(call.arg.dataset) : Len(call.arg.dataset[i]) >= 7)
    => LET d == call.arg.dataset
           n == Len(d)
           means == [i \in 1..n |-> Div(SumOver(d[i], 1, 7), Num(7))]
           Q1 == sortedAt(means, n \div 4)
           Q3 == sortedAt(means, (3 * n) \div 4)
           IQR == Sub(Q3, Q1)
           outside == {i \in 1..n : \/ Lt(means[i], Sub(Q1, Mul(Q(3, 2), IQR)))
                                    \/ Lt(Add(Q3, Mul(Q(3, 2), IQR)), means[i])}
       IN {ret[j] : j \in 1..Len(ret)} = {i - 1 : i \in outside}

(* C21: with the bayesian method the composite of every entry is            *)
(* w*mean + (1-w)*60 with w = 400/(400 + variance), mean and variance of    *)
(* the entry's first 7 values, clamped to [0,100]; so an entry whose 7      *)
(* values are all equal gets that value.                                    *)
C21_BayesianShrinkage ==
    (call.op = "applyOptimizer" /\ call.arg.method = "bayesian")
    => \A idx \in 1..Len(call.arg.data) :
           LET vals == slice7(call.arg.data[idx])
               n == Len(vals)
               mean == Div(sumRange(vals, 1, n), Num(n))
               variance == Div(sumRange([i \in 1..n |-> Mul(Sub(vals[i], mean), Sub(vals[i], mean))],
                                        1, n), Num(n))
               w == Div(Num(400), Add(Num(400), variance))
               blended == MathMax(Num(0), MathMin(Num(100), Add(Mul(w, mean), Mul(Sub(Num(1), w), Num(60)))))
           IN n = 7 => /\ ret[idx] = blended
                       /\ IsConstant(vals) => ret[idx] = vals[1]

(* C22: when migrate() returns with success false after migration has       *)
(* started, the database holds every task, goal and score record that it    *)
(* held when migrate() was called.                                          *)
C22_FailedMigrationKeepsData ==
    (mig.pc = "returned" /\ ~mig.returned.success)
    => /\ mig.before.idb.tasks \subseteq idb.tasks
       /\ mig.before.idb.goals \subseteq idb.goals
       /\ mig.before.idb.scores \subseteq idb.scores

C24_TaskRhythmScore ==
    call.op = "Task.calculateRhythmScore"
    => LET this == call.arg
           minutes(t) == t[1] * 60 + t[2]
           bothPresent == this.actualStartTime # <<>> /\ this.plannedStartTime # <<>>
           apart == IF Len(this.actualStartTime) = 2 /\ Len(this.plannedStartTime) = 2
                    THEN Abs(minutes(this.actualStartTime) - minutes(this.plannedStartTime))
                    ELSE 1440
           expected == 50 + (IF this.completedOnTime THEN 20 ELSE 0)
                          + (IF bothPresent /\ apart < 15 THEN 20
                             ELSE IF bothPresent /\ apart < 30 THEN 10 ELSE 0)
                          + (IF this.recurring # "null" /\ this.completed THEN 10 ELSE 0)
       IN /\ ret = <<Num(expected)>>
          /\ 0 <= expected /\ expected <= 100

\* a recurring task completed on time that started 14 minutes late scored 100
C24_Witness ==
    /\ call.op = "Task.calculateRhythmScore"
    /\ call.arg.completedOnTime /\ call.arg.completed /\ call.arg.recurring = "daily"
    /\ call.arg.actualStartTime = <<9, 14>> /\ call.arg.plannedStartTime = <<9, 0>>
    /\ ret = <<Num(100)>>

\* the least-squares slope of ys against the indices 0, 1, ...: the sum of
\* the products of the deviations from the means over the sum of the squared
\* deviations of the indices
leastSquaresSlope(ys) ==
    LET n == Len(ys)
        meanX == Q(n - 1, 2)
        meanY == Div(SumOver(ys, 1, n), Num(n))
        cross == SumOver([i \in 1..n |-> Mul(Sub(Num(i - 1), meanX), Sub(ys[i], meanY))], 1, n)
        square == SumOver([i \in 1..n |-> Mul(Sub(Num(i - 1), meanX), Sub(Num(i - 1), meanX))],
                          1, n)
    IN Div(cross, square)

(* C25: calculateTrend returns 'stable' for fewer than 2 scores and for a   *)
(* least-squares slope of absolute value below 0.5, 'improving' for a slope *)
(* of at least 0.5, 'declining' for a slope of at most -0.5; it returns     *)
(* nothing else and does not throw.                                         *)
C25_TrendByDeadband ==
    call.op = "calculateTrend"
    => LET scores == call.arg.scores
           slope == leastSquaresSlope(scores)
       IN /\ thrown = "none"
          /\ ret \in {<<"stable">>, <<"improving">>, <<"declining">>}
          /\ Len(scores) < 2 => ret = <<"stable">>
          /\ (Len(scores) >= 2 /\ Lt(AbsQ(slope), Q(1, 2))) => ret = <<"stable">>
          /\ (Len(scores) >= 2 /\ Le(Q(1, 2), slope)) => ret = <<"improving">>
          /\ (Len(scores) >= 2 /\ Le(slope, Q(-1, 2))) => ret = <<"declining">>

\* scores rising by exactly one half per step were called improving
C25_Witness ==
    /\ call.op = "calculateTrend"
    /\ call.arg.scores = <<Num(0), Q(1, 2), Num(1)>>
    /\ ret = <<"improving">>

(* C26: calculateWithMissingData called with one component missing returns  *)
(* the weighted sum with that component imputed (the mean of the score      *)
(* history, 50 when the history is empty) under the weights with that       *)
(* component's weight halved and all weights renormalised to sum to 1.      *)
C26_ImputedScoreUsesHalvedWeight ==
    (/\ call.op = "calculateWithMissingData"
     /\ call.arg.method = "historical"
     /\ Cardinality({k \in RKeys : call.arg.components[k] = Missing}) = 1)
    => LET key == CHOOSE k \in RKeys : call.arg.components[k] = Missing
           h == call.arg.history
           value == IF Len(h) = 0 THEN Num(50) ELSE Div(SumOver(h, 1, Len(h)), Num(Len(h)))
           halved == [k \in RKeys |-> IF k = key THEN Mul(call.arg.weights[k], Q(1, 2))
                                       ELSE call.arg.weights[k]]
           total == SumSeq(halved, RKeySeq, 1)
           X(k) == IF k = key THEN value ELSE Bound100(call.arg.components[k])
           sum == SumSeq([k \in RKeys |-> Mul(Div(halved[k], total), X(k))], RKeySeq, 1)
       IN ret = Bound100(sum)

\* the number of scores the call pushes on the history
pushesOf(c) ==
    IF c.op \in {"calculateScore", "updateHistory"} THEN 1
    ELSE IF c.op = "optimizeWeights" THEN Len(GridSeq) * Len(c.arg.data)
    ELSE IF c.op = "calculateWithMissingData"
    THEN Cardinality({k \in RKeys : c.arg.components[k] = Missing}) + 1
    ELSE 0

C27_ExportsDieOut == <>[]NoExportPending

(* C28: for a mean angle of circularStatistics, in (-pi, pi], and an ideal  *)
(* angle of timeToRadians, in [0, 2 pi), circularDistance returns a value   *)
(* in [0, pi] that is the shorter arc between the two clock times (both    *)
(* to within 1/100 rad, the precision the angles are computed to).          *)
C28_CircularDistanceIsShorterArc ==
    call.op = "circularDistance"
    => LET apart == Abs(timeToMinutes(call.arg.time) - timeToMinutes(call.arg.ideal))
           shorter == IF apart <= 720 THEN apart ELSE 1440 - apart
           arc == Mul(Q(shorter, 720), MathPI)
       IN /\ Lt(Mul(Num(-1), MathPI), call.arg.mean) /\ Le(call.arg.mean, MathPI)
          /\ Le(Q(-1, 100), ret) /\ Le(ret, Add(MathPI, Q(1, 100)))
          /\ Le(AbsQ(Sub(ret, arc)), Q(1, 100))

\* a is at least as large as b on every axis and strictly larger on one
C30_Dominating(a, b, axes) ==
    /\ \A i \in 1..Len(axes) : a.values[axes[i]] >= b.values[axes[i]]
    /\ \E i \in 1..Len(axes) : a.values[axes[i]] > b.values[axes[i]]

(* C30: paretoFront(list, axes) returns exactly the profiles of list that   *)
(* no profile of list dominates, in the order of list; the result is not    *)
(* empty unless list is, and no returned profile dominates another.         *)
C30_ParetoFrontIsUndominated ==
    call.op = "paretoFront"
    => LET list == call.arg.list
           axes == call.arg.axes
           kept == {i \in 1..Len(list) :
                       ~\E j \in 1..Len(list) : C30_Dominating(list[j], list[i], axes)}
       IN /\ Len(ret) = Cardinality(kept)
          /\ {ret[i].code : i \in 1..Len(ret)} = kept
          /\ \A i \in 1..Len(ret) : ret[i] = list[ret[i].code]
          /\ \A i \in 1..Len(ret), j \in 1..Len(ret) : i < j => ret[i].code < ret[j].code
          /\ Len(list) > 0 => Len(ret) > 0
          /\ \A i \in 1..Len(ret), j \in 1..Len(ret) : ~C30_Dominating(ret[i], ret[j], axes)

\* of three profiles one was dominated and two equal ones were both returned
C30_Witness ==
    /\ call.op = "paretoFront"
    /\ Len(call.arg.list) = 3
    /\ Len(ret) = 2
    /\ ret[1].values = ret[2].values

====
